---------------------------- MODULE Spec2Model ----------------------------
(***************************************************************************)
(* A model of the sentracms dashboard: the Supabase/Postgres backend       *)
(* (tables, foreign keys, row-level security, rollup triggers) defined by  *)
(* the two migrations, the zustand store of src/store/AppStore.ts that     *)
(* mirrors the tables in local collections, and the authentication context *)
(* of src/context/SupabaseContext.tsx.                                     *)
(***************************************************************************)
EXTENDS Integers, Sequences, FiniteSets, TLC

(***************************************************************************)
(* Bounds of the model.                                                    *)
(***************************************************************************)
\* Rows the backend hands an id to (every id comes from one fresh counter).
MaxRows == 4
\* Money amounts are 0..MaxAmount.
MaxAmount == 2
\* Responses that may be in flight to the store at once.
MaxSteps == 4
MaxInFlight == 2

Amounts == 0..MaxAmount
\* What addClient's callers pass as totalSales, totalCollection, balance and
\* invoiceCount: a new client's zeros, or the figures of a client taken over
\* from elsewhere.
ClientTotals ==
    {[total_sales |-> 0, total_collection |-> 0, balance |-> 0, invoice_count |-> 0],
     [total_sales |-> 1, total_collection |-> 1, balance |-> 1, invoice_count |-> 1]}

\* SQL NULL (a nullable column holding no value), and a field left undefined.
NULL == 0

VARIABLES
    db,          \* the backend: one function (id -> row) per table, and the id counter
    lastStmt,    \* the last statement a backend-only behaviour answered (history)
    store,       \* the store's local collections (arrays of camelCase rows)
    inflight,    \* backend responses on their way to the handler awaiting them
    done,        \* how the add, update or delete handler that completed last ended (history)
    auth         \* the authentication context (user, loading, signIn calls in
                 \* progress, events to deliver) and the auth service behind it

vars == <<db, lastStmt, store, inflight, done, auth>>

(***************************************************************************)
(* Helpers: sums over a table.                                             *)
(***************************************************************************)
RECURSIVE SumOver(_, _, _)
\* SELECT SUM(col) over the rows of table t whose ids are in S.
SumOver(t, col, S) ==
    IF S = {} THEN 0
    ELSE LET x == CHOOSE y \in S : TRUE
         IN t[x][col] + SumOver(t, col, S \ {x})

\* A text value that is absent (a metadata key the caller did not give).
NoText == "null"

\* SQL equality: never true when a side is NULL.
SqlEq(a, b) == a # NULL /\ b # NULL /\ a = b

(***************************************************************************)
(* Check constraints of the tables.                                        *)
(***************************************************************************)
Roles == {"Super Admin", "Team", "Client Admin", "Client Team"}
UserStatuses == {"Active", "Inactive"}
StaffRoles == {"Super Admin", "Team"}
ClientRoles == {"Client Admin", "Client Team"}
ClientStatuses == {"Complete", "Pending", "Inactive"}
InvoiceStatuses == {"Pending", "Partial", "Paid", "Overdue"}
PaymentStatuses == {"Paid", "Pending", "Failed", "Refunded"}
\* The payment statuses the model's callers pass ('Failed' and 'Refunded' act as 'Pending').
PaymentStatusInputs == {"Paid", "Pending"}

(***************************************************************************)
(* Row-level security policies.                                            *)
(***************************************************************************)
\* EXISTS (SELECT 1 FROM user_profiles WHERE id = auth.uid() AND role IN roles)
HasRole(d, uid, roles) ==
    /\ uid \in DOMAIN d.user_profiles
    /\ d.user_profiles[uid].role \in roles

\* "Super Admin and Team can access all <table>" (FOR ALL)
StaffPolicy(d, uid) == HasRole(d, uid, StaffRoles)

\* ClientPolicy without the client_id comparison (a client role reads every row).
ClientPolicy_AnyClient(d, uid, client_id) == HasRole(d, uid, ClientRoles)

\* "Client users can only access their <table>": the caller's profile has a
\* client role and its client_id equals the row's client id.
ClientPolicy(d, uid, client_id) ==
    /\ HasRole(d, uid, ClientRoles)
    /\ SqlEq(d.user_profiles[uid].client_id, client_id)

ClientScopedTables ==
    {"clients", "invoices", "payments", "components", "progress_steps",
     "calendar_events", "chats"}

\* The client id of a row of a client-scoped table (clients.id, or client_id).
RowClient(table, id, row) == IF table = "clients" THEN id ELSE row.client_id

\* Permissive policies are OR-ed: the rows of `table` the caller may SELECT.
CanSelect(d, uid, table, id) ==
    \/ StaffPolicy(d, uid)
    \/ ClientPolicy(d, uid, RowClient(table, id, d[table][id]))

\* INSERT, UPDATE, DELETE with the client policies FOR ALL on every table.
CanWrite_ClientAll(d, uid, table, client_id) ==
    \/ StaffPolicy(d, uid)
    \/ ClientPolicy(d, uid, client_id)

\* INSERT, UPDATE, DELETE: the FOR ALL policies only (the client policy is
\* FOR ALL on chats alone).
CanWrite(d, uid, table, client_id) ==
    \/ StaffPolicy(d, uid)
    \/ (table = "chats" /\ ClientPolicy(d, uid, client_id))

(***************************************************************************)
(* Rollup triggers.                                                        *)
(***************************************************************************)
InvoicesOf(d, c) == {i \in DOMAIN d.invoices : d.invoices[i].client_id = c}
PaymentsOfClient(d, c) == {p \in DOMAIN d.payments : d.payments[p].client_id = c}
PaymentsOfInvoice(d, i) == {p \in DOMAIN d.payments : d.payments[p].invoice_id = i}
PaidOnly(d, S) == {p \in S : d.payments[p].status = "Paid"}

\* update_client_totals() summing every payment, whatever its status.
update_client_totals_AnyStatus(d, target) ==
    IF target \notin DOMAIN d.clients THEN d
    ELSE [d EXCEPT !.clients[target] =
            [@ EXCEPT
               !.total_sales = SumOver(d.invoices, "amount", InvoicesOf(d, target)),
               !.total_collection =
                   SumOver(d.payments, "amount", PaymentsOfClient(d, target)),
               !.balance = SumOver(d.invoices, "due", InvoicesOf(d, target)),
               !.invoice_count = Cardinality(InvoicesOf(d, target))]]

\* update_client_totals(): recompute the four aggregates of client `target`.
update_client_totals(d, target) ==
    IF target \notin DOMAIN d.clients THEN d
    ELSE [d EXCEPT !.clients[target] =
            [@ EXCEPT
               !.total_sales = SumOver(d.invoices, "amount", InvoicesOf(d, target)),
               !.total_collection =
                   SumOver(d.payments, "amount", PaidOnly(d, PaymentsOfClient(d, target))),
               !.balance = SumOver(d.invoices, "due", InvoicesOf(d, target)),
               !.invoice_count = Cardinality(InvoicesOf(d, target))]]

\* The CASE with its first test written due < 0.
InvoiceStatusPolicy_StrictDue(due, paid) ==
    IF due < 0 THEN "Paid"
    ELSE IF paid > 0 THEN "Partial"
    ELSE "Pending"

\* The CASE of update_invoice_totals()'s second UPDATE.
InvoiceStatusPolicy(due, paid) ==
    IF due <= 0 THEN "Paid"
    ELSE IF paid > 0 THEN "Partial"
    ELSE "Pending"

\* update_invoice_totals(): two UPDATEs of the invoice; each is an UPDATE ON
\* invoices, so update_client_totals_on_invoice_change fires after each.
update_invoice_totals(d, inv) ==
    IF inv \notin DOMAIN d.invoices THEN d
    ELSE LET paidSum == SumOver(d.payments, "amount", PaidOnly(d, PaymentsOfInvoice(d, inv)))
             d1 == [d EXCEPT !.invoices[inv].paid = paidSum,
                             !.invoices[inv].due = d.invoices[inv].amount - paidSum]
             d2 == update_client_totals(d1, d1.invoices[inv].client_id)
             d3 == [d2 EXCEPT !.invoices[inv].status =
                        InvoiceStatusPolicy(d2.invoices[inv].due, d2.invoices[inv].paid)]
         IN update_client_totals(d3, d3.invoices[inv].client_id)

\* The AFTER ROW triggers of a payment row, in the order Postgres fires them
\* (by name): update_client_totals_on_payment_change, then
\* update_invoice_totals_on_payment_change.
PaymentTriggers(d, client_id, invoice_id) ==
    update_invoice_totals(update_client_totals(d, client_id), invoice_id)

RECURSIVE PaymentTriggersAll(_, _)
\* The payment triggers of every deleted payment row of `rows` (a set of
\* <<client_id, invoice_id>>), fired after the rows are gone.
PaymentTriggersAll(d, rows) ==
    IF rows = {} THEN d
    ELSE LET r == CHOOSE x \in rows : TRUE
         IN PaymentTriggersAll(PaymentTriggers(d, r[1], r[2]), rows \ {r})

RECURSIVE ClientTriggersAll(_, _)
\* update_client_totals_on_invoice_change for every deleted invoice row.
ClientTriggersAll(d, cs) ==
    IF cs = {} THEN d
    ELSE LET c == CHOOSE x \in cs : TRUE
         IN ClientTriggersAll(update_client_totals(d, c), cs \ {c})

\* f without the keys in S.
Without(f, S) == [x \in DOMAIN f \ S |-> f[x]]
\* f with key k bound to v.
With(f, k, v) == [x \in DOMAIN f \cup {k} |-> IF x = k THEN v ELSE f[x]]


(***************************************************************************)
(* The statements the store sends, as the backend executes them: row-level *)
(* security, foreign keys and check constraints, then the AFTER ROW        *)
(* triggers.  Each yields [ok, db, row]: whether PostgREST answers without *)
(* an error, the tables afterwards, and the row it returns.                *)
(***************************************************************************)
Rejected(d) == [ok |-> FALSE, db |-> d, row |-> NULL]
Accepted(d, row) == [ok |-> TRUE, db |-> d, row |-> row]
\* The row of `table` with primary key id, as a SELECT or RETURNING gives it.
RowOf(d, table, id) == [k \in DOMAIN d[table][id] \cup {"id"} |->
                          IF k = "id" THEN id ELSE d[table][id][k]]

\* addClient: INSERT INTO clients (..., status, ..., total_sales,
\* total_collection, balance, invoice_count, ...) with the values the caller
\* passed (|| 0); a status left undefined takes the default 'Pending', one
\* outside the check constraint refuses the row.
insert_clients(d, uid, status, totals) ==
    IF \/ ~CanWrite(d, uid, "clients", NULL)
       \/ (status # NoText /\ status \notin ClientStatuses)
    THEN Rejected(d)
    ELSE LET id == d.next_id
             row == [status |-> IF status = NoText THEN "Pending" ELSE status,
                     total_sales |-> totals.total_sales,
                     total_collection |-> totals.total_collection,
                     balance |-> totals.balance,
                     invoice_count |-> totals.invoice_count]
             d1 == [d EXCEPT !.clients = With(@, id, row), !.next_id = id + 1]
         IN Accepted(d1, RowOf(d1, "clients", id))

\* updateClient: UPDATE clients SET name, ..., status, ... WHERE id (.single():
\* no row is an error); the totals are not among the columns, and an undefined
\* status leaves the column as it is.
update_clients(d, uid, id, status) ==
    IF \/ ~StaffPolicy(d, uid)
       \/ id \notin DOMAIN d.clients
       \/ (status # NoText /\ status \notin ClientStatuses)
    THEN Rejected(d)
    ELSE LET d1 == IF status = NoText THEN d ELSE [d EXCEPT !.clients[id].status = status]
         IN Accepted(d1, RowOf(d1, "clients", id))

\* The messages of the chats in S.
MessagesOf(d, S) == {m \in DOMAIN d.chat_messages : d.chat_messages[m].chat_id \in S}

\* delete_clients with chat_messages.chat_id left without ON DELETE CASCADE.
delete_clients_KeepMessages(d, uid, id) ==
    IF ~StaffPolicy(d, uid) \/ id \notin DOMAIN d.clients THEN Accepted(d, NULL)
    ELSE LET gone(t) == {x \in DOMAIN d[t] : d[t][x].client_id = id}
         IN Accepted([d EXCEPT !.clients = Without(@, {id}),
                               !.invoices = Without(@, gone("invoices")),
                               !.payments = Without(@, gone("payments")),
                               !.components = Without(@, gone("components")),
                               !.progress_steps = Without(@, gone("progress_steps")),
                               !.calendar_events = Without(@, gone("calendar_events")),
                               !.chats = Without(@, gone("chats"))], NULL)

\* deleteClient: DELETE FROM clients WHERE id; ON DELETE CASCADE on invoices,
\* payments, components, progress_steps, calendar_events, chats (and from
\* chats on chat_messages); ON DELETE SET NULL on user_profiles.client_id; the
\* invoices' own cascade (payments) and SET NULL (components.invoice_id); then
\* the triggers of the deleted rows.
delete_clients(d, uid, id) ==
    IF ~StaffPolicy(d, uid) \/ id \notin DOMAIN d.clients THEN Accepted(d, NULL)
    ELSE LET invs == InvoicesOf(d, id)
             pays == PaymentsOfClient(d, id) \cup
                     {p \in DOMAIN d.payments : d.payments[p].invoice_id \in invs}
             gone(t) == {x \in DOMAIN d[t] : d[t][x].client_id = id}
             comps == Without(d.components, gone("components"))
             d1 == [d EXCEPT
                     !.clients = Without(@, {id}),
                     !.invoices = Without(@, invs),
                     !.payments = Without(@, pays),
                     !.components =
                         [c \in DOMAIN comps |->
                            IF comps[c].invoice_id \in invs
                            THEN [comps[c] EXCEPT !.invoice_id = NULL]
                            ELSE comps[c]],
                     !.progress_steps = Without(@, gone("progress_steps")),
                     !.calendar_events = Without(@, gone("calendar_events")),
                     !.chats = Without(@, gone("chats")),
                     !.chat_messages = Without(@, MessagesOf(d, gone("chats"))),
                     !.user_profiles =
                         [u \in DOMAIN @ |->
                            IF @[u].client_id = id
                            THEN [@[u] EXCEPT !.client_id = NULL] ELSE @[u]]]
             d2 == PaymentTriggersAll(d1,
                     {<<d.payments[p].client_id, d.payments[p].invoice_id>> : p \in pays})
         IN Accepted(ClientTriggersAll(d2, {d.invoices[i].client_id : i \in invs}), NULL)

\* addInvoice: INSERT INTO invoices (client_id, package_name, amount, due,
\* created_at) VALUES (clientId, packageName, amount, amount, invoiceDate);
\* paid and status take their defaults; update_client_totals_on_invoice_change.
insert_invoices(d, uid, client_id, amount) ==
    IF ~CanWrite(d, uid, "invoices", client_id) \/ client_id \notin DOMAIN d.clients
    THEN Rejected(d)
    ELSE LET id == d.next_id
             row == [client_id |-> client_id, amount |-> amount, paid |-> 0,
                     due |-> amount, status |-> "Pending"]
             d1 == [d EXCEPT !.invoices = With(@, id, row), !.next_id = id + 1]
         IN Accepted(update_client_totals(d1, client_id), RowOf(d1, "invoices", id))

\* updateInvoice: UPDATE invoices SET package_name, amount, created_at WHERE id
\* (.single(): no row is an error); update_client_totals_on_invoice_change.
update_invoices(d, uid, id, amount) ==
    IF ~StaffPolicy(d, uid) \/ id \notin DOMAIN d.invoices THEN Rejected(d)
    ELSE LET d1 == [d EXCEPT !.invoices[id].amount = amount]
         IN Accepted(update_client_totals(d1, d1.invoices[id].client_id),
                     RowOf(d1, "invoices", id))

\* deleteInvoice: DELETE FROM invoices WHERE id; ON DELETE CASCADE on payments,
\* ON DELETE SET NULL on components.invoice_id; the deleted payments' triggers,
\* then update_client_totals_on_invoice_change.
delete_invoices(d, uid, id) ==
    IF ~StaffPolicy(d, uid) \/ id \notin DOMAIN d.invoices THEN Accepted(d, NULL)
    ELSE LET pays == PaymentsOfInvoice(d, id)
             d1 == [d EXCEPT
                     !.invoices = Without(@, {id}),
                     !.payments = Without(@, pays),
                     !.components =
                         [c \in DOMAIN @ |->
                            IF @[c].invoice_id = id
                            THEN [@[c] EXCEPT !.invoice_id = NULL] ELSE @[c]]]
             d2 == PaymentTriggersAll(d1,
                     {<<d.payments[p].client_id, d.payments[p].invoice_id>> : p \in pays})
         IN Accepted(update_client_totals(d2, d.invoices[id].client_id), NULL)

\* addPayment: INSERT INTO payments (client_id, invoice_id, amount,
\* payment_source, status, paid_at, receipt_file_url); both foreign keys and
\* the status check; then the payment triggers.
insert_payments(d, uid, client_id, invoice_id, amount, status) ==
    IF \/ ~CanWrite(d, uid, "payments", client_id)
       \/ client_id \notin DOMAIN d.clients
       \/ invoice_id \notin DOMAIN d.invoices
       \/ status \notin PaymentStatuses
    THEN Rejected(d)
    ELSE LET id == d.next_id
             row == [client_id |-> client_id, invoice_id |-> invoice_id,
                     amount |-> amount, status |-> status]
             d1 == [d EXCEPT !.payments = With(@, id, row), !.next_id = id + 1]
         IN Accepted(PaymentTriggers(d1, client_id, invoice_id), RowOf(d1, "payments", id))

\* updatePayment: UPDATE payments SET amount, payment_source, status, paid_at
\* WHERE id (.single()); then the payment triggers.
update_payments(d, uid, id, amount, status) ==
    IF \/ ~StaffPolicy(d, uid)
       \/ id \notin DOMAIN d.payments
       \/ status \notin PaymentStatuses
    THEN Rejected(d)
    ELSE LET d1 == [d EXCEPT !.payments[id].amount = amount,
                             !.payments[id].status = status]
         IN Accepted(PaymentTriggers(d1, d1.payments[id].client_id,
                                     d1.payments[id].invoice_id),
                     RowOf(d1, "payments", id))

\* deletePayment: DELETE FROM payments WHERE id; then the payment triggers.
delete_payments(d, uid, id) ==
    IF ~StaffPolicy(d, uid) \/ id \notin DOMAIN d.payments THEN Accepted(d, NULL)
    ELSE LET d1 == [d EXCEPT !.payments = Without(@, {id})]
         IN Accepted(PaymentTriggers(d1, d.payments[id].client_id,
                                     d.payments[id].invoice_id), NULL)

\* handle_new_user() on a table without the role check constraint.
handle_new_user_Unchecked(d, role) ==
    LET r == IF role = NoText THEN "Team" ELSE role
        id == d.next_id
        d1 == [d EXCEPT
                !.user_profiles =
                    With(@, id, [role |-> r, status |-> "Active", client_id |-> NULL]),
                !.next_id = id + 1]
    IN Accepted(d1, RowOf(d1, "user_profiles", id))

\* signUp: supabase.auth.signUp inserts the auth user, and the trigger
\* on_auth_user_created runs handle_new_user(): INSERT INTO user_profiles (id,
\* name, role, permissions) with COALESCE(metadata role, 'Team'); client_id is
\* not among the columns and status takes its default.  The role check
\* constraint may refuse the row.
handle_new_user(d, role) ==
    LET r == IF role = NoText THEN "Team" ELSE role
    IN IF r \notin Roles THEN Rejected(d)
       ELSE LET id == d.next_id
                d1 == [d EXCEPT
                        !.user_profiles =
                            With(@, id, [role |-> r, status |-> "Active", client_id |-> NULL]),
                        !.next_id = id + 1]
            IN Accepted(d1, RowOf(d1, "user_profiles", id))

\* updateUser: UPDATE user_profiles SET name, role, status, client_id,
\* permissions WHERE id (.single()); the policy "Allow authenticated users to
\* update user profiles" lets every signed-in caller through.  An undefined
\* role or status leaves the column as it is.
update_user_profiles(d, id, role, status, client_id) ==
    IF \/ id \notin DOMAIN d.user_profiles
       \/ (role # NoText /\ role \notin Roles)
       \/ (status # NoText /\ status \notin UserStatuses)
       \/ (client_id # NULL /\ client_id \notin DOMAIN d.clients)
    THEN Rejected(d)
    ELSE LET d1 == [d EXCEPT !.user_profiles[id] =
                       [role |-> IF role = NoText THEN @.role ELSE role,
                        status |-> IF status = NoText THEN @.status ELSE status,
                        client_id |-> client_id]]
         IN Accepted(d1, RowOf(d1, "user_profiles", id))

\* addUser: INSERT INTO user_profiles (name, email, role, status, client_id,
\* permissions).  id is not among the columns and has no default: the primary
\* key is NULL and the row is refused, as are a role outside the check
\* constraint and a client_id without its client.
insert_user_profiles(d, uid, role, status, client_id) ==
    LET id == NULL
    IN IF \/ id = NULL
          \/ role \notin Roles
          \/ (status # NoText /\ status \notin UserStatuses)
          \/ (client_id # NULL /\ client_id \notin DOMAIN d.clients)
       THEN Rejected(d)
       ELSE LET d1 == [d EXCEPT !.user_profiles =
                          With(@, id, [role |-> role,
                                       status |-> IF status = NoText THEN "Active"
                                                  ELSE status,
                                       client_id |-> client_id])]
            IN Accepted(d1, RowOf(d1, "user_profiles", id))

\* deleteUser: DELETE FROM user_profiles WHERE id; the policy "Allow
\* authenticated users to delete user profiles" (USING true) lets every
\* signed-in caller through.
delete_user_profiles(d, id) ==
    Accepted([d EXCEPT !.user_profiles = Without(@, {id} \cap DOMAIN @)], NULL)

\* deleteComponent, deleteProgressStep, deleteCalendarEvent: DELETE FROM
\* table WHERE id; the rows the policies hide from the caller stay.
delete_scoped(d, uid, table, id) ==
    IF id \notin DOMAIN d[table] \/ ~CanWrite(d, uid, table, d[table][id].client_id)
    THEN Accepted(d, NULL)
    ELSE Accepted([d EXCEPT ![table] = Without(@, {id})], NULL)

\* An INSERT into components, progress_steps, calendar_events or chats: the
\* policies, then the foreign key to clients (and, for a component, to invoices).
insert_scoped(d, uid, table, client_id, row) ==
    IF \/ ~CanWrite(d, uid, table, client_id)
       \/ client_id \notin DOMAIN d.clients
       \/ (table = "components" /\ row.invoice_id # NULL
             /\ row.invoice_id \notin DOMAIN d.invoices)
    THEN Rejected(d)
    ELSE LET id == d.next_id
             d1 == [d EXCEPT ![table] = With(@, id, row), !.next_id = id + 1]
         IN Accepted(d1, RowOf(d1, table, id))

\* An INSERT into chat_messages: "Admin and Team can access all chat
\* messages", "Client users can access messages from their chats" (both FOR
\* ALL), then the foreign key to chats.
insert_chat_messages(d, uid, chat_id) ==
    IF \/ chat_id \notin DOMAIN d.chats
       \/ ~(StaffPolicy(d, uid) \/ ClientPolicy(d, uid, d.chats[chat_id].client_id))
    THEN Rejected(d)
    ELSE LET id == d.next_id
             d1 == [d EXCEPT !.chat_messages = With(@, id, [chat_id |-> chat_id]),
                             !.next_id = id + 1]
         IN Accepted(d1, RowOf(d1, "chat_messages", id))

\* SELECT * FROM table: the ids of the rows the policies let the caller see.
select_all(d, uid, table) == {id \in DOMAIN d[table] : CanSelect(d, uid, table, id)}

(***************************************************************************)
(* Initial states.                                                         *)
(***************************************************************************)
Empty == [x \in {} |-> NULL]

\* The database after the two migrations, with the first Super Admin the
\* second migration asks the operator to create (its profile has id 1).
EmptyDb ==
    [clients |-> Empty, invoices |-> Empty, payments |-> Empty,
     components |-> Empty, progress_steps |-> Empty, calendar_events |-> Empty,
     chats |-> Empty, chat_messages |-> Empty, tags |-> Empty,
     user_profiles |-> With(Empty, 1, [role |-> "Super Admin", status |-> "Active",
                                       client_id |-> NULL]),
     next_id |-> 2]

\* The first ids the backend hands out: those of the seed's client and invoice.
SeedClient == EmptyDb.next_id
SeedInvoice == SeedClient + 1
\* The backend once the Super Admin has added a client and an invoice.
SeedDb ==
    LET totals == [total_sales |-> 0, total_collection |-> 0, balance |-> 0,
                   invoice_count |-> 0]
        d1 == insert_clients(EmptyDb, 1, NoText, totals).db
    IN insert_invoices(d1, 1, SeedClient, MaxAmount).db

NoStmt == [table |-> "none", op |-> "none", client_id |-> NULL, invoice_id |-> NULL,
           role |-> "none", clients |-> {},
           caller |-> NULL, id |-> NULL, ok |-> TRUE, new_role |-> NoText, status |-> NoText]
NoDone == [op |-> "none", id |-> NULL, failed |-> FALSE, rejected |-> FALSE]

\* useAppStore's initial state: every collection empty, no loading flag set.
EmptyStore ==
    [clients |-> <<>>, invoices |-> <<>>, payments |-> <<>>, components |-> <<>>,
     progressSteps |-> <<>>, calendarEvents |-> <<>>, chats |-> <<>>,
     tags |-> <<>>, users |-> <<>>,
     loading |-> [c \in {"clients", "invoices", "payments", "components",
                         "progressSteps", "calendarEvents", "chats", "tags", "users"}
                  |-> FALSE]]

\* The two copies of the provider in the repository; an app mounts one.
Builds == {"SupabaseContext.tsx", "part_000"}
\* No user: useState<AuthUser | null>(null).
NoUser == [id |-> NoText, email |-> NoText, role |-> NoText, clientId |-> NULL]
NoDemo == [email |-> NoText, attempted |-> FALSE, errored |-> FALSE]
\* The auth service after the operator has created the first Super Admin
\* (profile 1), and SupabaseProvider's initial state: no user, loading.
InitAuth(build) ==
    [build |-> build,
     user |-> NoUser,
     loading |-> TRUE,
     initialized |-> FALSE,
     accounts |-> With(Empty, "owner@example.com",
                       [id |-> 1, password |-> "password123",
                        data |-> [role |-> "Super Admin", clientId |-> NULL]]),
     session |-> NoText,
     calls |-> {},
     events |-> <<>>,
     fetches |-> {},
     demo |-> NoDemo]

Init ==
    /\ db = EmptyDb
    /\ lastStmt = NoStmt
    /\ store = EmptyStore
    /\ inflight = {}
    /\ done = NoDone
    /\ auth = InitAuth("SupabaseContext.tsx")

(***************************************************************************)
(* The backend alone: each action is the statement of one store handler,   *)
(* committed by the backend on behalf of a signed-in caller.               *)
(***************************************************************************)
Callers == DOMAIN db.user_profiles
HasId == db.next_id <= MaxRows
\* A write on `table`: the client and the invoice of the row it wrote.
Stmt(table, op, id, client_id, invoice_id) ==
    [NoStmt EXCEPT !.table = table, !.op = op, !.client_id = client_id,
                   !.invoice_id = invoice_id]
\* The backend commits the statement's result r and records it.
Commit(r, stmt) ==
    /\ r.ok
    /\ r.db # db \/ stmt # lastStmt
    /\ db' = r.db
    /\ lastStmt' = stmt
    /\ UNCHANGED <<store, inflight, done, auth>>

BackendAddClient(totalsIn) ==
    \E uid \in Callers, totals \in totalsIn :
        /\ HasId
        /\ Commit(insert_clients(db, uid, NoText, totals),
                  Stmt("clients", "insert", db.next_id, db.next_id, NULL))

BackendDeleteClient ==
    \E uid \in Callers, id \in DOMAIN db.clients :
        Commit(delete_clients(db, uid, id), Stmt("clients", "delete", id, id, NULL))

BackendAddInvoice(amountsIn) ==
    \E uid \in Callers, c \in DOMAIN db.clients, amount \in amountsIn :
        /\ HasId
        /\ Commit(insert_invoices(db, uid, c, amount),
                  Stmt("invoices", "insert", db.next_id, c, db.next_id))

BackendUpdateInvoice ==
    \E uid \in Callers, id \in DOMAIN db.invoices, amount \in Amounts :
        Commit(update_invoices(db, uid, id, amount),
               Stmt("invoices", "update", id, db.invoices[id].client_id, id))

BackendDeleteInvoice ==
    \E uid \in Callers, id \in DOMAIN db.invoices :
        Commit(delete_invoices(db, uid, id),
               Stmt("invoices", "delete", id, db.invoices[id].client_id, id))

BackendAddPayment(amountsIn, statusIn) ==
    \E uid \in Callers, c \in DOMAIN db.clients, i \in DOMAIN db.invoices,
       amount \in amountsIn, status \in statusIn :
        /\ HasId
        /\ Commit(insert_payments(db, uid, c, i, amount, status),
                  Stmt("payments", "insert", db.next_id, c, i))

BackendUpdatePayment ==
    \E uid \in Callers, id \in DOMAIN db.payments,
       amount \in Amounts, status \in PaymentStatusInputs :
        Commit(update_payments(db, uid, id, amount, status),
               Stmt("payments", "update", id, db.payments[id].client_id,
                    db.payments[id].invoice_id))

BackendDeletePayment ==
    \E uid \in Callers, id \in DOMAIN db.payments :
        Commit(delete_payments(db, uid, id),
               Stmt("payments", "delete", id, db.payments[id].client_id,
                    db.payments[id].invoice_id))

NextDB ==
    \/ BackendAddClient(ClientTotals)
    \/ BackendDeleteClient
    \/ BackendAddInvoice(Amounts)
    \/ BackendUpdateInvoice
    \/ BackendDeleteInvoice
    \/ BackendAddPayment(Amounts, PaymentStatusInputs)
    \/ BackendUpdatePayment
    \/ BackendDeletePayment

SpecDB == Init /\ [][NextDB]_vars


(***************************************************************************)
(* The backend under callers of every role: sign-ups, profile updates, the *)
(* inserts of the client-scoped tables, and SELECTs.                       *)
(***************************************************************************)
\* The roles the model's callers sign up with and assign (Super Admin acts as
\* Team, Client Team as Client Admin, in every policy).
RoleInputs == {"Team", "Client Admin"}
ZeroTotals == [total_sales |-> 0, total_collection |-> 0, balance |-> 0, invoice_count |-> 0]

BackendSignUp ==
    \E role \in RoleInputs :
        /\ HasId
        /\ Commit(handle_new_user(db, role), Stmt("user_profiles", "insert", db.next_id, NULL, NULL))

BackendUpdateUser ==
    \E id \in DOMAIN db.user_profiles, role \in RoleInputs,
       c \in DOMAIN db.clients \cup {NULL} :
        Commit(update_user_profiles(db, id, role, NoText, c),
               Stmt("user_profiles", "update", id, c, NULL))

\* The component INSERT of addComponent and addComponents.
BackendAddComponent ==
    \E uid \in Callers, c \in DOMAIN db.clients, i \in DOMAIN db.invoices \cup {NULL} :
        /\ HasId
        /\ Commit(insert_scoped(db, uid, "components", c, [client_id |-> c, invoice_id |-> i]),
                  Stmt("components", "insert", db.next_id, c, i))

\* The INSERT of addProgressStep, addCalendarEvent, or of a chat.
BackendInsertScoped ==
    \E uid \in Callers, c \in DOMAIN db.clients,
       table \in {"progress_steps", "calendar_events", "chats"} :
        /\ HasId
        /\ Commit(insert_scoped(db, uid, table, c, [client_id |-> c]),
                  Stmt(table, "insert", db.next_id, c, NULL))

\* A fetch's SELECT * on behalf of caller uid: recorded with the caller's role
\* and client_id and the client ids of the rows returned.
BackendSelect ==
    \E uid \in Callers, table \in ClientScopedTables :
        /\ lastStmt' =
              [NoStmt EXCEPT
                 !.table = table, !.op = "select",
                 !.client_id = db.user_profiles[uid].client_id,
                 !.role = db.user_profiles[uid].role,
                 !.clients = {RowClient(table, id, db[table][id]) :
                                 id \in select_all(db, uid, table)}]
        /\ UNCHANGED <<db, store, inflight, done, auth>>

NextRLS ==
    \/ BackendSignUp
    \/ BackendUpdateUser
    \/ BackendAddClient({ZeroTotals})
    \/ BackendDeleteClient
    \/ BackendAddInvoice({MaxAmount})
    \/ BackendAddPayment({MaxAmount}, {"Paid"})
    \/ BackendAddComponent
    \/ BackendInsertScoped
    \/ BackendSelect

SpecRLS == Init /\ [][NextRLS]_vars

(***************************************************************************)
(* The backend under the statements that create and delete referenced rows *)
(* (checked for the foreign keys).                                         *)
(***************************************************************************)
\* A message is inserted into a chat.
BackendAddMessage ==
    \E uid \in Callers, chat \in DOMAIN db.chats :
        /\ HasId
        /\ Commit(insert_chat_messages(db, uid, chat),
                  Stmt("chat_messages", "insert", db.next_id, db.chats[chat].client_id, NULL))

NextFK ==
    \/ BackendSignUp
    \/ BackendUpdateUser
    \/ BackendAddClient({ZeroTotals})
    \/ BackendDeleteClient
    \/ BackendAddInvoice({MaxAmount})
    \/ BackendDeleteInvoice
    \/ BackendAddPayment({MaxAmount}, {"Paid"})
    \/ BackendAddComponent
    \/ BackendInsertScoped
    \/ BackendAddMessage

SpecFK == Init /\ [][NextFK]_vars

(***************************************************************************)
(* The backend under writes that carry any text as a role or a status:     *)
(* every statement is attempted, and recorded with its caller, the values  *)
(* it carried and whether PostgREST answered without an error.             *)
(***************************************************************************)
\* The statement is attempted: its result r (the tables as they were when it
\* is refused) and its record.
Attempt(r, stmt) ==
    /\ r.db # db \/ stmt # lastStmt
    /\ db' = r.db
    /\ lastStmt' = stmt
    /\ UNCHANGED <<store, inflight, done, auth>>

\* The record of a write by caller uid on row id of `table`.
Written(table, op, uid, id, r, new_role, status) ==
    [NoStmt EXCEPT !.table = table, !.op = op, !.caller = uid,
                   !.role = IF uid \in DOMAIN db.user_profiles
                            THEN db.user_profiles[uid].role ELSE "none",
                   !.id = id, !.ok = r.ok, !.new_role = new_role, !.status = status]

\* The texts the model's callers pass: a value of the check constraint, one
\* outside it, and undefined.
RoleTexts == {"Client Team", "Owner", NoText}
UserStatusTexts == {"Inactive", "Suspended", NoText}
ClientStatusTexts == {"Complete", "Archived", NoText}
PaymentStatusTexts == {"Paid", "Refunded", "Void"}

\* The caller of these writes: the first Super Admin (profile 1 of EmptyDb).
FirstAdmin == {uid \in Callers : uid = 1}

\* signUp with any text as the metadata role (the caller has no profile yet).
CheckedSignUp ==
    \E role \in RoleTexts :
        /\ HasId
        /\ LET r == handle_new_user(db, role)
           IN Attempt(r, Written("user_profiles", "insert", NULL, db.next_id, r, role, NoText))

CheckedUpdateUser ==
    \E uid \in FirstAdmin, id \in DOMAIN db.user_profiles,
       role \in RoleTexts, status \in UserStatusTexts :
        /\ role = NoText \/ status = NoText
        /\ LET r == update_user_profiles(db, id, role, status, db.user_profiles[id].client_id)
           IN Attempt(r, Written("user_profiles", "update", uid, id, r, role, status))

CheckedAddClient ==
    \E uid \in FirstAdmin, status \in ClientStatusTexts :
        /\ HasId
        /\ LET r == insert_clients(db, uid, status, ZeroTotals)
           IN Attempt(r, Written("clients", "insert", uid, db.next_id, r, NoText, status))

CheckedUpdateClient ==
    \E uid \in FirstAdmin, id \in DOMAIN db.clients, status \in ClientStatusTexts :
        LET r == update_clients(db, uid, id, status)
        IN Attempt(r, Written("clients", "update", uid, id, r, NoText, status))

CheckedAddInvoice ==
    \E uid \in FirstAdmin, c \in DOMAIN db.clients :
        /\ HasId
        /\ LET r == insert_invoices(db, uid, c, MaxAmount)
           IN Attempt(r, Written("invoices", "insert", uid, db.next_id, r, NoText, NoText))

CheckedAddPayment ==
    \E uid \in FirstAdmin, i \in DOMAIN db.invoices, status \in PaymentStatusTexts :
        /\ HasId
        /\ LET r == insert_payments(db, uid, db.invoices[i].client_id, i, MaxAmount, status)
           IN Attempt(r, Written("payments", "insert", uid, db.next_id, r, NoText, status))

CheckedUpdatePayment ==
    \E uid \in FirstAdmin, id \in DOMAIN db.payments, status \in PaymentStatusTexts :
        LET r == update_payments(db, uid, id, db.payments[id].amount, status)
        IN Attempt(r, Written("payments", "update", uid, id, r, NoText, status))

NextCheck ==
    \/ CheckedSignUp
    \/ CheckedUpdateUser
    \/ CheckedAddClient
    \/ CheckedUpdateClient
    \/ CheckedAddInvoice
    \/ CheckedAddPayment
    \/ CheckedUpdatePayment

SpecCheck == Init /\ [][NextCheck]_vars

(***************************************************************************)
(* The authentication context: SupabaseProvider's signIn, signOut, signUp, *)
(* initializeAuth and its onAuthStateChange listener, and the password     *)
(* sign-in of the auth service.                                            *)
(***************************************************************************)
DemoEmails == {"admin@sentra.com", "client@sentra.com", "team@sentra.com"}
DemoPassword == "password123"
\* The credentials the model's callers type.
Emails == DemoEmails \cup {"owner@example.com"}
\* (a wrong password is typed for the one account that exists from the start)
Credentials ==
    {<<email, DemoPassword>> : email \in Emails} \cup {<<"owner@example.com", "wrong">>}
\* The accounts the model's callers register.
SignUpEmails == {"admin@sentra.com"}

\* The test signIn makes on (email, password) before it builds mockUser.
IsDemoCredentials(email, password) ==
    \/ (email = "admin@sentra.com" /\ password = "password123")
    \/ (email = "client@sentra.com" /\ password = "password123")
    \/ (email = "team@sentra.com" /\ password = "password123")

\* The hardcoded demo user of a demo email.
mockUser(email) ==
    IF email = "admin@sentra.com"
    THEN [id |-> "admin-user-id", email |-> "admin@sentra.com",
          role |-> "Super Admin", clientId |-> NULL]
    ELSE IF email = "client@sentra.com"
    THEN [id |-> "client-user-id", email |-> "client@sentra.com",
          role |-> "Client Admin", clientId |-> 1]
    ELSE [id |-> "team-user-id", email |-> "team@sentra.com",
          role |-> "Team", clientId |-> NULL]

\* fetchUserProfile(userId) followed by { ...profile, email: session.user.email
\* || profile.email }: NoUser when the query fails or finds no row.
fetchUserProfile(d, uid, email, fails) ==
    IF fails \/ uid \notin DOMAIN d.user_profiles THEN NoUser
    ELSE [id |-> ToString(uid), email |-> email,
          role |-> d.user_profiles[uid].role,
          clientId |-> d.user_profiles[uid].client_id]

\* The id of the signed-in account (auth.uid()), NULL without a session.
SessionUid == IF auth.session = NoText THEN NULL ELSE auth.accounts[auth.session].id

AuthOnly == UNCHANGED <<db, lastStmt, store, inflight, done>>
SignInCall(email, password) == [email |-> email, password |-> password, answer |-> "sent"]

\* initializeAuth (once, on mount): getSession, the profile of its user, then
\* setLoading(false).
initializeAuth ==
    \E fails \in BOOLEAN :
        /\ ~auth.initialized
        /\ LET profile == fetchUserProfile(db, SessionUid, auth.session, fails)
           IN auth' = [auth EXCEPT
                         !.initialized = TRUE,
                         !.user = IF auth.session # NoText /\ profile # NoUser
                                  THEN profile ELSE @,
                         !.loading = FALSE]
        /\ AuthOnly

\* signIn of SupabaseContext.tsx.  Demo credentials: setUser(mockUser) and
\* return, with no backend call; other credentials: signInWithPassword is
\* sent, and the call resumes (second disjunct) on its answer.
signIn ==
    /\ auth.build = "SupabaseContext.tsx"
    /\ \/ \E email \in Emails, password \in {DemoPassword, "wrong"} :
            /\ <<email, password>> \in Credentials
            /\ IF IsDemoCredentials(email, password)
               THEN auth' = [auth EXCEPT
                               !.user = mockUser(email),
                               !.demo = [email |-> email, attempted |-> FALSE,
                                         errored |-> FALSE],
                               !.loading = FALSE]
               ELSE /\ Cardinality(auth.calls) < MaxInFlight
                    /\ SignInCall(email, password) \notin auth.calls
                    /\ auth' = [auth EXCEPT
                                  !.loading = TRUE,
                                  !.calls = @ \cup {SignInCall(email, password)}]
       \/ \E c \in auth.calls :
            /\ c.answer # "sent"
            /\ auth' = [auth EXCEPT !.calls = @ \ {c}, !.loading = FALSE]
    /\ AuthOnly

\* signIn of part_000: signInWithPassword is sent whatever the credentials;
\* on its error, demo credentials set the demo user.
signIn_part_000 ==
    /\ auth.build = "part_000"
    /\ \/ \E email \in Emails, password \in {DemoPassword, "wrong"} :
            /\ <<email, password>> \in Credentials
            /\ Cardinality(auth.calls) < MaxInFlight
            /\ SignInCall(email, password) \notin auth.calls
            /\ auth' = [auth EXCEPT
                          !.loading = TRUE,
                          !.calls = @ \cup {SignInCall(email, password)}]
       \/ \E c \in auth.calls :
            /\ c.answer # "sent"
            /\ IF c.answer = "error" /\ IsDemoCredentials(c.email, c.password)
               THEN auth' = [auth EXCEPT
                               !.calls = @ \ {c},
                               !.user = mockUser(c.email),
                               !.demo = [email |-> c.email, attempted |-> TRUE,
                                         errored |-> TRUE],
                               !.loading = FALSE]
               ELSE auth' = [auth EXCEPT !.calls = @ \ {c}, !.loading = FALSE]
    /\ AuthOnly

\* supabase.auth.signInWithPassword at the auth service: the account's
\* password, or an error (also when the service cannot be reached); accepted
\* credentials open the session and emit SIGNED_IN.
signInWithPassword ==
    \E c \in auth.calls, fails \in BOOLEAN :
        /\ c.answer = "sent"
        /\ LET accepted == /\ ~fails
                           /\ c.email \in DOMAIN auth.accounts
                           /\ auth.accounts[c.email].password = c.password
           IN IF accepted
              THEN /\ Len(auth.events) < MaxInFlight
                   /\ auth' = [auth EXCEPT
                                 !.calls = (@ \ {c}) \cup {[c EXCEPT !.answer = "ok"]},
                                 !.session = c.email,
                                 !.events = Append(@, [event |-> "SIGNED_IN",
                                                       email |-> c.email])]
              ELSE auth' = [auth EXCEPT
                              !.calls = (@ \ {c}) \cup {[c EXCEPT !.answer = "error"]}]
        /\ AuthOnly

\* The auth service refreshes the session's token and emits TOKEN_REFRESHED.
TokenRefreshed ==
    /\ auth.session # NoText
    /\ Len(auth.events) < MaxInFlight
    /\ auth' = [auth EXCEPT
                  !.events = Append(@, [event |-> "TOKEN_REFRESHED", email |-> auth.session])]
    /\ AuthOnly

\* The onAuthStateChange listener on the oldest undelivered event.
onAuthStateChange ==
    \E fails \in BOOLEAN :
        /\ auth.events # <<>>
        /\ LET e == Head(auth.events)
               uid == IF e.email \in DOMAIN auth.accounts
                      THEN auth.accounts[e.email].id ELSE NULL
               profile == fetchUserProfile(db, uid, e.email, fails)
           IN auth' = [auth EXCEPT
                         !.events = Tail(@),
                         !.user = IF e.event = "SIGNED_IN"
                                  THEN (IF profile # NoUser THEN profile ELSE @)
                                  ELSE NoUser,
                         !.loading = FALSE]
        /\ AuthOnly

\* signOut: supabase.auth.signOut closes the session and emits SIGNED_OUT,
\* or fails; setLoading(false) either way.
signOut ==
    \E fails \in BOOLEAN :
        /\ IF fails
           THEN auth' = [auth EXCEPT !.loading = FALSE]
           ELSE /\ Len(auth.events) < MaxInFlight
                /\ auth' = [auth EXCEPT
                              !.session = NoText,
                              !.events = Append(@, [event |-> "SIGNED_OUT", email |-> NoText]),
                              !.loading = FALSE]
        /\ AuthOnly

\* signUp: supabase.auth.signUp registers the account unless the email is
\* taken, with options.data = {name, role, clientId, permissions} as its
\* raw_user_meta_data, and on_auth_user_created inserts its profile from the
\* metadata keys the trigger reads; setLoading(false).
signUp ==
    \E email \in SignUpEmails, role \in RoleInputs, clientId \in DOMAIN db.clients \cup {NULL} :
        LET data == [role |-> role, clientId |-> clientId]
            r == handle_new_user(db, data.role)
        IN IF email \notin DOMAIN auth.accounts /\ HasId /\ r.ok
           THEN /\ db' = r.db
                /\ auth' = [auth EXCEPT
                              !.accounts = With(@, email, [id |-> r.row.id,
                                                           password |-> DemoPassword,
                                                           data |-> data]),
                              !.loading = FALSE]
                /\ UNCHANGED <<lastStmt, store, inflight, done>>
           ELSE /\ auth' = [auth EXCEPT !.loading = FALSE]
                /\ AuthOnly

\* The provider is mounted over a backend that holds a client already.
InitAuthSpec ==
    /\ db = SeedDb
    /\ lastStmt = NoStmt
    /\ store = EmptyStore
    /\ inflight = {}
    /\ done = NoDone
    /\ \E build \in Builds : auth = InitAuth(build)

NextAuth ==
    \/ initializeAuth
    \/ signIn
    \/ signIn_part_000
    \/ signInWithPassword
    \/ TokenRefreshed
    \/ onAuthStateChange
    \/ signOut
    \/ signUp

SpecAuth == InitAuthSpec /\ [][NextAuth]_vars

(***************************************************************************)
(* The store (useAppStore): every handler sends one request to PostgREST   *)
(* and resumes on its answer; requests of different handlers are answered  *)
(* and resumed in any order.                                               *)
(***************************************************************************)
\* toCamelCase on the column names of the model's rows.
toCamelCase(str) ==
    CASE str = "client_id" -> "clientId"
      [] str = "invoice_id" -> "invoiceId"
      [] str = "total_sales" -> "totalSales"
      [] str = "total_collection" -> "totalCollection"
      [] str = "invoice_count" -> "invoiceCount"
      [] str = "package_name" -> "packageName"
      [] OTHER -> str

\* convertKeysToCamelCase on one row, and on an array of rows.
convertKeysToCamelCase(obj) ==
    [k \in {toCamelCase(c) : c \in DOMAIN obj} |->
        obj[CHOOSE c \in DOMAIN obj : toCamelCase(c) = k]]
convertRows(rows) == [n \in DOMAIN rows |-> convertKeysToCamelCase(rows[n])]

RECURSIVE Descending(_)
\* ORDER BY created_at DESC: ids are handed out in creation order.
Descending(S) ==
    IF S = {} THEN <<>>
    ELSE LET m == CHOOSE x \in S : \A y \in S : y <= x
         IN <<m>> \o Descending(S \ {m})

\* The names the model's callers give tags, in ORDER BY name.
TagNames == <<"Basic", "Premium">>

\* "Admin and Team can access all tags" (FOR ALL), "Client users can read tags".
CanSelectTags(d, uid) == HasRole(d, uid, Roles)

\* fetchClients, fetchPayments: SELECT * ORDER BY created_at DESC.
select_ordered(d, uid, table) ==
    LET ids == Descending(select_all(d, uid, table))
    IN [n \in DOMAIN ids |-> RowOf(d, table, ids[n])]

\* fetchTags: SELECT * FROM tags ORDER BY name.
select_tags(d, uid) ==
    LET named(n) == {t \in DOMAIN d.tags : d.tags[t].name = TagNames[n]}
        present == IF CanSelectTags(d, uid)
                   THEN SelectSeq([n \in DOMAIN TagNames |-> named(n)], LAMBDA S : S # {})
                   ELSE <<>>
    IN [n \in DOMAIN present |-> RowOf(d, "tags", CHOOSE t \in present[n] : TRUE)]

\* addTag: INSERT INTO tags (name, color); name is UNIQUE.
insert_tags(d, uid, name) ==
    IF ~StaffPolicy(d, uid) \/ (\E t \in DOMAIN d.tags : d.tags[t].name = name)
    THEN Rejected(d)
    ELSE LET id == d.next_id
             d1 == [d EXCEPT !.tags = With(@, id, [name |-> name]), !.next_id = id + 1]
         IN Accepted(d1, RowOf(d1, "tags", id))

\* updateTag: UPDATE tags SET name, color WHERE id (.single()).
update_tags(d, uid, id, name) ==
    IF \/ ~StaffPolicy(d, uid)
       \/ id \notin DOMAIN d.tags
       \/ (\E t \in DOMAIN d.tags \ {id} : d.tags[t].name = name)
    THEN Rejected(d)
    ELSE LET d1 == [d EXCEPT !.tags[id].name = name]
         IN Accepted(d1, RowOf(d1, "tags", id))

\* deleteTag: DELETE FROM tags WHERE id.
delete_tags(d, uid, id) ==
    IF ~StaffPolicy(d, uid) \/ id \notin DOMAIN d.tags THEN Accepted(d, NULL)
    ELSE Accepted([d EXCEPT !.tags = Without(@, {id})], NULL)

\* addInvoice's SELECT id FROM tags WHERE name = packageName (.single()): an
\* error unless exactly one row is found.
select_tag_by_name(d, uid, name) ==
    LET found == {t \in DOMAIN d.tags : CanSelectTags(d, uid) /\ d.tags[t].name = name}
    IN IF Cardinality(found) = 1
       THEN Accepted(d, RowOf(d, "tags", CHOOSE t \in found : TRUE))
       ELSE Rejected(d)

\* What a handler passes to its statement.
NoArgs == [client_id |-> NULL, invoice_id |-> NULL, amount |-> 0, status |-> NoText,
           name |-> NoText, role |-> NoText, totals |-> ZeroTotals]

FetchOps == {"fetchClients", "fetchInvoices", "fetchPayments", "fetchProgressSteps",
             "fetchTags"}
AddOps == {"addClient", "addInvoice", "addPayment", "addComponent", "addProgressStep",
           "addCalendarEvent", "addTag", "addUser"}
\* The requests an add handler sends after its INSERT: addInvoice's tag lookup,
\* tag INSERT and progress step INSERT, addComponent's progress step INSERT.
TailOps == {"addInvoice.tag", "addInvoice.newTag", "addInvoice.step", "addComponent.step"}
UpdateOps == {"updateClient", "updatePayment", "updateTag"}
DeleteOps == {"deleteClient", "deleteInvoice", "deletePayment", "deleteTag"}
WriteOps == AddOps \cup UpdateOps \cup DeleteOps
TagOps == {"addTag", "updateTag", "deleteTag"}

\* The statement of request r, executed for caller uid.
Execute(d, uid, r) ==
    CASE r.op = "addClient" -> insert_clients(d, uid, r.args.status, r.args.totals)
      [] r.op = "updateClient" -> update_clients(d, uid, r.id, r.args.status)
      [] r.op = "deleteClient" -> delete_clients(d, uid, r.id)
      [] r.op = "addPayment" ->
            insert_payments(d, uid, r.args.client_id, r.args.invoice_id,
                            r.args.amount, r.args.status)
      [] r.op = "updatePayment" -> update_payments(d, uid, r.id, r.args.amount, r.args.status)
      [] r.op = "deletePayment" -> delete_payments(d, uid, r.id)
      [] r.op = "addTag" -> insert_tags(d, uid, r.args.name)
      [] r.op = "addInvoice" -> insert_invoices(d, uid, r.args.client_id, r.args.amount)
      [] r.op = "deleteInvoice" -> delete_invoices(d, uid, r.id)
      [] r.op = "addInvoice.tag" -> select_tag_by_name(d, uid, r.args.name)
      [] r.op = "addInvoice.newTag" -> insert_tags(d, uid, r.args.name)
      [] r.op \in {"addInvoice.step", "addComponent.step", "addProgressStep"} ->
            insert_scoped(d, uid, "progress_steps", r.args.client_id,
                          [client_id |-> r.args.client_id])
      [] r.op = "addComponent" ->
            insert_scoped(d, uid, "components", r.args.client_id,
                          [client_id |-> r.args.client_id, invoice_id |-> r.args.invoice_id])
      [] r.op = "addCalendarEvent" ->
            insert_scoped(d, uid, "calendar_events", r.args.client_id,
                          [client_id |-> r.args.client_id])
      [] r.op = "addUser" ->
            insert_user_profiles(d, uid, r.args.role, r.args.status, r.args.client_id)
      [] r.op = "updateTag" -> update_tags(d, uid, r.id, r.args.name)
      [] r.op = "deleteTag" -> delete_tags(d, uid, r.id)
      [] OTHER -> Accepted(d, NULL)

\* The rows of the answer: the SELECT's rows, the row of .select().single(),
\* or nothing (a DELETE); a handler that is past its INSERT keeps the row the
\* INSERT returned (its local `data`).
AnswerRows(d, uid, r, res) ==
    CASE r.op = "fetchClients" -> select_ordered(d, uid, "clients")
      [] r.op = "fetchInvoices" -> select_ordered(d, uid, "invoices")
      [] r.op = "fetchPayments" -> select_ordered(d, uid, "payments")
      [] r.op = "fetchProgressSteps" -> select_ordered(d, uid, "progress_steps")
      [] r.op \in TailOps -> r.rows
      [] r.op = "fetchTags" -> select_tags(d, uid)
      [] r.op \in AddOps \cup UpdateOps -> <<res.row>>
      [] OTHER -> <<>>

\* PostgREST answers one request that was sent: the statement's result, or an
\* error when the statement is refused or the service cannot be reached.
PostgREST ==
    \E r \in inflight, fails \in BOOLEAN :
        /\ r.phase = "sent"
        /\ LET res == Execute(db, SessionUid, r)
               ok == ~fails /\ res.ok
               answer == IF ok
                         THEN [r EXCEPT !.phase = "ok",
                                        !.rows = AnswerRows(res.db, SessionUid, r, res)]
                         ELSE [r EXCEPT !.phase = "error"]
           IN /\ db' = IF ok THEN res.db ELSE db
              /\ inflight' = (inflight \ {r}) \cup {answer}
        /\ UNCHANGED <<lastStmt, store, done, auth>>

\* A handler sends its request (up to its await).  The model's callers add
\* rows only while the backend has ids left for them.
Send(op, id, args) ==
    LET r == [op |-> op, id |-> id, args |-> args, phase |-> "sent", rows |-> <<>>]
        adding == {q \in inflight : q.op \in AddOps /\ q.phase = "sent"}
    IN /\ Cardinality(inflight) < MaxInFlight
       /\ r \notin inflight
       /\ op \in AddOps => db.next_id + Cardinality(adding) <= MaxRows
       /\ inflight' = inflight \cup {r}
       /\ UNCHANGED <<db, lastStmt, done, auth>>

\* The answers handler op may resume on.
Answered(op) == {r \in inflight : r.op = op /\ r.phase # "sent"}

\* A handler ends on answer r, leaving the store as `next`; rejected: the
\* promise it returned rejects.
Settle(r, next, rejected) ==
    /\ store' = next
    /\ inflight' = inflight \ {r}
    /\ done' = IF r.op \in WriteOps
               THEN [op |-> r.op, id |-> r.id, failed |-> r.phase = "error",
                     rejected |-> rejected]
               ELSE done
    /\ UNCHANGED <<db, lastStmt, auth>>

\* A catch block that sends the request once more.
CatchLog_Retry(r) ==
    /\ store' = store
    /\ inflight' = (inflight \ {r}) \cup {[r EXCEPT !.phase = "sent"]}
    /\ done' = [op |-> r.op, id |-> r.id, failed |-> TRUE, rejected |-> FALSE]
    /\ UNCHANGED <<db, lastStmt, auth>>

\* A catch block that throws what it caught.
CatchLog_Rethrows(r) == Settle(r, store, TRUE)

\* catch (error) { console.error(...) }
CatchLog(r) == Settle(r, store, FALSE)

\* catch (error) { console.error(...); throw error; }
CatchRethrow(r) == Settle(r, store, TRUE)

Ids(rows) == {rows[n].id : n \in DOMAIN rows}
\* A filter that keeps no row.
FilterOut_Clear(rows, key, id) == <<>>

\* rows.filter((row) => row[key] !== id)
FilterOut(rows, key, id) == SelectSeq(rows, LAMBDA row : row[key] # id)
\* A map that appends data when no row has that id.
MapById_Upsert(rows, id, data) ==
    IF id \in Ids(rows)
    THEN [n \in DOMAIN rows |-> IF rows[n].id = id THEN data ELSE rows[n]]
    ELSE Append(rows, data)

\* rows.map((row) => row.id === id ? data : row)
MapById(rows, id, data) == [n \in DOMAIN rows |-> IF rows[n].id = id THEN data ELSE rows[n]]

\* A fetch that keeps the local rows its answer does not hold.
FetchResume_Merge(r, coll) ==
    IF r.phase = "ok"
    THEN Settle(r, [store EXCEPT
                      ![coll] = SelectSeq(@, LAMBDA row : row.id \notin Ids(r.rows))
                                    \o convertRows(r.rows),
                      !.loading[coll] = FALSE], FALSE)
    ELSE Settle(r, [store EXCEPT !.loading[coll] = FALSE], FALSE)

\* A fetch resumes on answer r: the collection becomes the converted rows, or
\* on an error stays; loading[coll] = false either way.
FetchResume(r, coll) ==
    IF r.phase = "ok"
    THEN Settle(r, [store EXCEPT ![coll] = convertRows(r.rows),
                                 !.loading[coll] = FALSE], FALSE)
    ELSE Settle(r, [store EXCEPT !.loading[coll] = FALSE], FALSE)

\* fetchClients: loading.clients = true and the SELECT is sent; then FetchResume.
fetchClients ==
    \/ /\ Send("fetchClients", NULL, NoArgs)
       /\ store' = [store EXCEPT !.loading.clients = TRUE]
    \/ \E r \in Answered("fetchClients") : FetchResume(r, "clients")

\* fetchPayments: loading.payments = true and the SELECT is sent; then FetchResume.
fetchPayments ==
    \/ /\ Send("fetchPayments", NULL, NoArgs)
       /\ store' = [store EXCEPT !.loading.payments = TRUE]
    \/ \E r \in Answered("fetchPayments") : FetchResume(r, "payments")

\* fetchTags: loading.tags = true and the SELECT is sent; then FetchResume.
fetchTags ==
    \/ /\ Send("fetchTags", NULL, NoArgs)
       /\ store' = [store EXCEPT !.loading.tags = TRUE]
    \/ \E r \in Answered("fetchTags") : FetchResume(r, "tags")

\* addClient: INSERT ... .select().single(); then clients = [...clients, data].
addClient ==
    \/ /\ Send("addClient", NULL, NoArgs)
       /\ store' = store
    \/ \E r \in Answered("addClient") :
         IF r.phase = "ok"
         THEN Settle(r, [store EXCEPT
                           !.clients = Append(@, convertKeysToCamelCase(r.rows[1]))],
                     FALSE)
         ELSE CatchLog(r)

\* updateClient: UPDATE ... .select().single(); then the client with that id is
\* replaced by data.
updateClient ==
    \/ \E id \in Ids(store.clients) :
         /\ Send("updateClient", id, [NoArgs EXCEPT !.status = "Complete"])
         /\ store' = store
    \/ \E r \in Answered("updateClient") :
         IF r.phase = "ok"
         THEN Settle(r, [store EXCEPT
                           !.clients = MapById(@, r.id, convertKeysToCamelCase(r.rows[1]))],
                     FALSE)
         ELSE CatchLog(r)

\* deleteClient: DELETE; then the client and the rows of the seven collections
\* whose clientId is id are filtered out.
deleteClient ==
    \/ \E id \in Ids(store.clients) :
         /\ Send("deleteClient", id, NoArgs)
         /\ store' = store
    \/ \E r \in Answered("deleteClient") :
         IF r.phase = "ok"
         THEN Settle(r, [store EXCEPT
                           !.clients = FilterOut(@, "id", r.id),
                           !.invoices = FilterOut(@, "clientId", r.id),
                           !.payments = FilterOut(@, "clientId", r.id),
                           !.components = FilterOut(@, "clientId", r.id),
                           !.progressSteps = FilterOut(@, "clientId", r.id),
                           !.calendarEvents = FilterOut(@, "clientId", r.id),
                           !.chats = FilterOut(@, "clientId", r.id)],
                     FALSE)
         ELSE CatchLog(r)

\* addPayment: INSERT ... .select().single(); then payments = [...payments, data].
addPayment ==
    \/ /\ Send("addPayment", NULL,
               [NoArgs EXCEPT !.client_id = SeedClient, !.invoice_id = SeedInvoice,
                              !.amount = MaxAmount, !.status = "Paid"])
       /\ store' = store
    \/ \E r \in Answered("addPayment") :
         IF r.phase = "ok"
         THEN Settle(r, [store EXCEPT
                           !.payments = Append(@, convertKeysToCamelCase(r.rows[1]))],
                     FALSE)
         ELSE CatchLog(r)

\* updatePayment: UPDATE ... .select().single(); then the row with that id is
\* replaced by data.
updatePayment ==
    \/ \E id \in Ids(store.payments) :
         /\ Send("updatePayment", id,
                 [NoArgs EXCEPT !.amount = MaxAmount, !.status = "Pending"])
         /\ store' = store
    \/ \E r \in Answered("updatePayment") :
         IF r.phase = "ok"
         THEN Settle(r, [store EXCEPT
                           !.payments = MapById(@, r.id, convertKeysToCamelCase(r.rows[1]))],
                     FALSE)
         ELSE CatchLog(r)

\* deletePayment: DELETE; then the row with that id is filtered out.
deletePayment ==
    \/ \E id \in Ids(store.payments) :
         /\ Send("deletePayment", id, NoArgs)
         /\ store' = store
    \/ \E r \in Answered("deletePayment") :
         IF r.phase = "ok"
         THEN Settle(r, [store EXCEPT !.payments = FilterOut(@, "id", r.id)],
                     FALSE)
         ELSE CatchLog(r)

\* addTag: INSERT ... .select().single(); then tags = [...tags, data]; the
\* catch block rethrows.
addTag ==
    \/ \E n \in DOMAIN TagNames :
         /\ Send("addTag", NULL, [NoArgs EXCEPT !.name = TagNames[n]])
         /\ store' = store
    \/ \E r \in Answered("addTag") :
         IF r.phase = "ok"
         THEN Settle(r, [store EXCEPT
                           !.tags = Append(@, convertKeysToCamelCase(r.rows[1]))],
                     FALSE)
         ELSE CatchRethrow(r)

\* updateTag: UPDATE ... .select().single(); then the tag with that id is
\* replaced by data; the catch block rethrows.
updateTag ==
    \/ \E id \in Ids(store.tags), n \in DOMAIN TagNames :
         /\ Send("updateTag", id, [NoArgs EXCEPT !.name = TagNames[n]])
         /\ store' = store
    \/ \E r \in Answered("updateTag") :
         IF r.phase = "ok"
         THEN Settle(r, [store EXCEPT
                           !.tags = MapById(@, r.id, convertKeysToCamelCase(r.rows[1]))],
                     FALSE)
         ELSE CatchRethrow(r)

\* deleteTag: DELETE; then the tag with that id is filtered out; the catch
\* block rethrows.
deleteTag ==
    \/ \E id \in Ids(store.tags) :
         /\ Send("deleteTag", id, NoArgs)
         /\ store' = store
    \/ \E r \in Answered("deleteTag") :
         IF r.phase = "ok"
         THEN Settle(r, [store EXCEPT !.tags = FilterOut(@, "id", r.id)],
                     FALSE)
         ELSE CatchRethrow(r)

\* The page has just loaded for the signed-in Super Admin: the store is
\* empty, the backend holds the client and the invoice of an earlier visit.
InitStore ==
    /\ db = SeedDb
    /\ lastStmt = NoStmt
    /\ store = EmptyStore
    /\ inflight = {}
    /\ done = NoDone
    /\ auth = [InitAuth("SupabaseContext.tsx") EXCEPT
                 !.initialized = TRUE,
                 !.loading = FALSE,
                 !.session = "owner@example.com",
                 !.user = fetchUserProfile(SeedDb, 1, "owner@example.com", FALSE)]

NextStore ==
    \/ fetchClients
    \/ fetchPayments
    \/ fetchTags
    \/ addClient
    \/ updateClient
    \/ deleteClient
    \/ addPayment
    \/ updatePayment
    \/ deletePayment
    \/ addTag
    \/ updateTag
    \/ deleteTag
    \/ PostgREST

SpecStore == InitStore /\ [][NextStore]_vars

(***************************************************************************)
(* The add handlers of every entity, with the fetches addInvoice and       *)
(* addComponent start when they are done, and fetchInvoices.                *)
(***************************************************************************)
\* A handler goes on from answer r to its next request.
Continue(r, op, next) ==
    /\ store' = next
    /\ inflight' = (inflight \ {r}) \cup {[r EXCEPT !.op = op, !.phase = "sent"]}
    /\ UNCHANGED <<db, lastStmt, done, auth>>

\* get().fetchX() as a handler's last statement: loading is set and the SELECT
\* is sent; nothing awaits it.
Refresh(op) == [op |-> op, id |-> NULL, args |-> NoArgs, phase |-> "sent", rows |-> <<>>]

\* A handler ends on answer r of its last request, having started `fetches`.
SettleTail(r, op, next, fetches) ==
    /\ store' = next
    /\ inflight' = (inflight \ {r}) \cup {Refresh(f) : f \in fetches}
    /\ done' = [op |-> op, id |-> r.id, failed |-> FALSE, rejected |-> FALSE]
    /\ UNCHANGED <<db, lastStmt, auth>>

fetchInvoices ==
    \/ /\ Send("fetchInvoices", NULL, NoArgs)
       /\ store' = [store EXCEPT !.loading.invoices = TRUE]
    \/ \E r \in Answered("fetchInvoices") : FetchResume(r, "invoices")

fetchProgressSteps ==
    \/ /\ Send("fetchProgressSteps", NULL, NoArgs)
       /\ store' = [store EXCEPT !.loading.progressSteps = TRUE]
    \/ \E r \in Answered("fetchProgressSteps") : FetchResume(r, "progressSteps")

\* addInvoice: INSERT ... .select().single(); invoices = [...invoices, data];
\* then the tag of the package is looked up and, if not found, inserted; a
\* progress step is inserted; fetchTags() and fetchProgressSteps() are started.
\* No answer after the first is tested for an error.
addInvoice ==
    \/ /\ Send("addInvoice", NULL,
               [NoArgs EXCEPT !.client_id = SeedClient, !.amount = MaxAmount,
                              !.name = TagNames[1]])
       /\ store' = store
    \/ \E r \in Answered("addInvoice") :
         IF r.phase = "ok"
         THEN Continue(r, "addInvoice.tag",
                       [store EXCEPT
                          !.invoices = Append(@, convertKeysToCamelCase(r.rows[1]))])
         ELSE CatchLog(r)
    \/ \E r \in Answered("addInvoice.tag") :
         Continue(r, IF r.phase = "ok" THEN "addInvoice.step" ELSE "addInvoice.newTag", store)
    \/ \E r \in Answered("addInvoice.newTag") :
         Continue(r, "addInvoice.step", store)
    \/ \E r \in Answered("addInvoice.step") :
         SettleTail(r, "addInvoice",
                    [store EXCEPT !.loading.tags = TRUE, !.loading.progressSteps = TRUE],
                    {"fetchTags", "fetchProgressSteps"})

\* addComponent: INSERT ... .select().single(); the component's progress step
\* is inserted (its answer is not tested); then components = [...components,
\* data] and fetchProgressSteps() is started.
addComponent ==
    \/ \E i \in {NULL, SeedInvoice} :
         /\ Send("addComponent", NULL,
                 [NoArgs EXCEPT !.client_id = SeedClient, !.invoice_id = i])
         /\ store' = store
    \/ \E r \in Answered("addComponent") :
         IF r.phase = "ok" THEN Continue(r, "addComponent.step", store) ELSE CatchLog(r)
    \/ \E r \in Answered("addComponent.step") :
         SettleTail(r, "addComponent",
                    [store EXCEPT
                       !.components = Append(@, convertKeysToCamelCase(r.rows[1])),
                       !.loading.progressSteps = TRUE],
                    {"fetchProgressSteps"})

\* addProgressStep: INSERT ... .select().single(); then progressSteps =
\* [...progressSteps, data].
addProgressStep ==
    \/ /\ Send("addProgressStep", NULL, [NoArgs EXCEPT !.client_id = SeedClient])
       /\ store' = store
    \/ \E r \in Answered("addProgressStep") :
         IF r.phase = "ok"
         THEN Settle(r, [store EXCEPT
                           !.progressSteps = Append(@, convertKeysToCamelCase(r.rows[1]))],
                     FALSE)
         ELSE CatchLog(r)

\* addCalendarEvent: INSERT ... .select().single(); then calendarEvents =
\* [...calendarEvents, data].
addCalendarEvent ==
    \/ /\ Send("addCalendarEvent", NULL, [NoArgs EXCEPT !.client_id = SeedClient])
       /\ store' = store
    \/ \E r \in Answered("addCalendarEvent") :
         IF r.phase = "ok"
         THEN Settle(r, [store EXCEPT
                           !.calendarEvents = Append(@, convertKeysToCamelCase(r.rows[1]))],
                     FALSE)
         ELSE CatchLog(r)

\* addUser: INSERT ... .select().single(); then users = [...users, data].
addUser ==
    \/ \E role \in RoleInputs :
         /\ Send("addUser", NULL, [NoArgs EXCEPT !.role = role])
         /\ store' = store
    \/ \E r \in Answered("addUser") :
         IF r.phase = "ok"
         THEN Settle(r, [store EXCEPT
                           !.users = Append(@, convertKeysToCamelCase(r.rows[1]))],
                     FALSE)
         ELSE CatchLog(r)

NextAdd ==
    \/ addClient
    \/ addInvoice
    \/ addPayment
    \/ addComponent
    \/ addProgressStep
    \/ addCalendarEvent
    \/ addTag
    \/ addUser
    \/ fetchInvoices
    \/ fetchProgressSteps
    \/ fetchTags
    \/ PostgREST

SpecAdd == InitStore /\ [][NextAdd]_vars

(***************************************************************************)
(* Claims about the rollups (checked under SpecDB).                        *)
(***************************************************************************)
\* The sum of the amounts of invoice i's payments whose status is 'Paid'.
PaidSum(i) == SumOver(db.payments, "amount", PaidOnly(db, PaymentsOfInvoice(db, i)))

\* C1: in every reachable backend state every invoice has paid = the sum of its
\* 'Paid' payments and due = amount - paid.
C1_InvoiceTotals ==
    \A i \in DOMAIN db.invoices :
        /\ db.invoices[i].paid = PaidSum(i)
        /\ db.invoices[i].due = db.invoices[i].amount - db.invoices[i].paid

\* C2: in every reachable backend state every client's balance is the sum of
\* due over its invoices.
C2_ClientBalance ==
    \A c \in DOMAIN db.clients :
        db.clients[c].balance = SumOver(db.invoices, "due", InvoicesOf(db, c))

\* C3: in every reachable backend state every client's invoice_count is the
\* number of invoice rows of that client.
C3_InvoiceCount ==
    \A c \in DOMAIN db.clients :
        db.clients[c].invoice_count = Cardinality(InvoicesOf(db, c))

\* C4: right after a committed payment insert, update or delete, the parent
\* invoice's status is 'Paid' if amount - (sum of its 'Paid' payments) <= 0,
\* else 'Partial' if that sum is > 0, else 'Pending'.
C4_StatusAfterPayment ==
    (lastStmt.table = "payments" /\ lastStmt.invoice_id \in DOMAIN db.invoices) =>
        LET i == lastStmt.invoice_id
            paid == PaidSum(i)
            due == db.invoices[i].amount - paid
        IN db.invoices[i].status =
              (IF due <= 0 THEN "Paid" ELSE IF paid > 0 THEN "Partial" ELSE "Pending")

\* A payment statement has left its invoice partly paid.
C4_Witness ==
    /\ lastStmt.table = "payments"
    /\ lastStmt.invoice_id \in DOMAIN db.invoices
    /\ db.invoices[lastStmt.invoice_id].status = "Partial"
    /\ PaidSum(lastStmt.invoice_id) > 0

\* C5: right after a committed invoice or payment insert, update or delete, the
\* parent client's total_sales is the sum of its invoices' amounts and its
\* total_collection the sum of its 'Paid' payments' amounts.
C5_ClientTotalsAfterWrite ==
    (lastStmt.table \in {"invoices", "payments"} /\ lastStmt.client_id \in DOMAIN db.clients) =>
        LET c == lastStmt.client_id
        IN /\ db.clients[c].total_sales =
                 SumOver(db.invoices, "amount", InvoicesOf(db, c))
           /\ db.clients[c].total_collection =
                 SumOver(db.payments, "amount", PaidOnly(db, PaymentsOfClient(db, c)))

\* A payment statement has left its client with sales and a collection.
C5_Witness ==
    /\ lastStmt.table = "payments"
    /\ lastStmt.client_id \in DOMAIN db.clients
    /\ db.clients[lastStmt.client_id].total_collection > 0
    /\ db.clients[lastStmt.client_id].total_sales > db.clients[lastStmt.client_id].total_collection


(***************************************************************************)
(* Claims about row-level security (checked under SpecRLS).                *)
(***************************************************************************)
\* C6: a SELECT on a client-scoped table by a caller whose role is Client Admin
\* or Client Team returns only rows whose client id is the client_id of the
\* caller's profile, and no row at all when that client_id is NULL.
C6_ClientReadsOwnRows ==
    (lastStmt.op = "select" /\ lastStmt.role \in ClientRoles) =>
        /\ lastStmt.clients \subseteq {lastStmt.client_id}
        /\ (lastStmt.client_id = NULL => lastStmt.clients = {})

\* A client-role caller has read its own client's rows while another client exists.
C6_Witness ==
    /\ lastStmt.op = "select"
    /\ lastStmt.role \in ClientRoles
    /\ lastStmt.clients = {lastStmt.client_id}
    /\ Cardinality(DOMAIN db[lastStmt.table]) > 1

(***************************************************************************)
(* Claims about the authentication context (checked under SpecAuth).       *)
(***************************************************************************)
\* C7: whenever signIn has set a demo user, it had called the backend's
\* password sign-in for those credentials and the backend had answered with an
\* error.
C7_DemoOnlyAfterBackendError ==
    auth.demo.email # NoText => (auth.demo.attempted /\ auth.demo.errored)

C9_ErrorLeavesStore ==
    [][/\ \A r \in inflight' \ inflight :
             (r.op \in WriteOps /\ r.phase = "sent") => store' = store
       /\ \A r \in inflight \ inflight' :
             (r.op \in WriteOps /\ r.phase = "error") =>
                 (store' = store /\ inflight' = inflight \ {r})]_vars

\* deleteClient has met a backend failure and the client is still in the
\* local collection.
C9_Witness ==
    /\ done.op = "deleteClient"
    /\ done.failed
    /\ done.id \in Ids(store.clients)

\* The local collection a delete handler filters by id.
CollectionOf(op) ==
    CASE op = "deleteClient" -> "clients"
      [] op = "deletePayment" -> "payments"
      [] op = "deleteTag" -> "tags"

\* C10: when the delete handler that completed last had its backend delete
\* succeed and no request is in flight any more, the local collection holds no
\* row with the deleted id.
C10_DeletedRowStaysGone ==
    (done.op \in DeleteOps /\ ~done.failed /\ inflight = {}) =>
        done.id \notin Ids(store[CollectionOf(done.op)])

(***************************************************************************)
(* Claims about the add handlers (checked under SpecAdd).                  *)
(***************************************************************************)
\* The local collection an add handler appends to.
AddCollection(op) ==
    CASE op = "addClient" -> "clients"
      [] op = "addInvoice" -> "invoices"
      [] op = "addPayment" -> "payments"
      [] op = "addComponent" -> "components"
      [] op = "addProgressStep" -> "progressSteps"
      [] op = "addCalendarEvent" -> "calendarEvents"
      [] op = "addTag" -> "tags"
      [] op = "addUser" -> "users"

\* The request whose answer an add handler's last step takes.
LastRequest(op) ==
    CASE op = "addInvoice" -> "addInvoice.step"
      [] op = "addComponent" -> "addComponent.step"
      [] OTHER -> op

Range(seq) == {seq[n] : n \in DOMAIN seq}

\* C11: the step on which an add handler whose INSERT succeeded completes
\* leaves the row the INSERT returned in the local collection of its entity.
C11_AddedRowIsLocal ==
    [][\A op \in AddOps : \A r \in inflight \ inflight' :
          (/\ r.op = LastRequest(op)
           /\ r.phase # "sent"
           /\ (r.op = op => r.phase = "ok")) =>
              convertKeysToCamelCase(r.rows[1]) \in Range(store'[AddCollection(op)])]_vars


(***************************************************************************)
(* Further claims about the store's handlers (checked under SpecStore).    *)
(***************************************************************************)
\* The local collection an update handler maps over.
UpdateCollection(op) ==
    CASE op = "updateClient" -> "clients"
      [] op = "updatePayment" -> "payments"
      [] op = "updateTag" -> "tags"

Collections ==
    {"clients", "invoices", "payments", "components", "progressSteps",
     "calendarEvents", "chats", "tags", "users"}

\* C12: the step that takes the answer of a successful UPDATE puts the row the
\* backend returned in the place of every local row with that id, and leaves
\* every other row, the length of the collection and every other collection
\* as they were (so no row is added when no local row has that id).
C12_UpdateReplacesRow ==
    [][\A r \in inflight \ inflight' :
          (r.op \in UpdateOps /\ r.phase = "ok") =>
              LET coll == UpdateCollection(r.op)
                  data == convertKeysToCamelCase(r.rows[1])
              IN /\ Len(store'[coll]) = Len(store[coll])
                 /\ \A n \in DOMAIN store[coll] :
                        store'[coll][n] =
                            IF store[coll][n].id = r.id THEN data ELSE store[coll][n]
                 /\ \A c \in Collections \ {coll} : store'[c] = store[c]]_vars

\* updateClient has completed on a successful UPDATE: the local client with
\* that id has the new status, next to a client it left alone.
C12_Witness ==
    /\ done.op = "updateClient"
    /\ ~done.failed
    /\ \E n, k \in DOMAIN store.clients :
          /\ store.clients[n].id = done.id
          /\ store.clients[n].status = "Complete"
          /\ store.clients[k].id # done.id
          /\ store.clients[k].status = "Pending"

(***************************************************************************)
(* Claims about the check constraints (checked under SpecCheck).           *)
(***************************************************************************)
\* The values the status check constraint of a table admits.
StatusesOf(table) ==
    CASE table = "user_profiles" -> UserStatuses
      [] table = "clients" -> ClientStatuses
      [] table = "invoices" -> InvoiceStatuses
      [] table = "payments" -> PaymentStatuses

\* Every role and status stored is one its check constraint admits.
StoredValuesChecked ==
    /\ \A u \in DOMAIN db.user_profiles :
          /\ db.user_profiles[u].role \in {"Super Admin", "Team", "Client Admin", "Client Team"}
          /\ db.user_profiles[u].status \in {"Active", "Inactive"}
    /\ \A c \in DOMAIN db.clients :
          db.clients[c].status \in {"Complete", "Pending", "Inactive"}
    /\ \A i \in DOMAIN db.invoices :
          db.invoices[i].status \in {"Pending", "Partial", "Paid", "Overdue"}
    /\ \A q \in DOMAIN db.payments :
          db.payments[q].status \in {"Paid", "Pending", "Failed", "Refunded"}

\* C13: in every backend state every stored role and status is a value of its
\* check constraint, and an INSERT or UPDATE (the sign-up trigger's INSERT
\* included) carrying another text as role or status is answered with an error
\* and changes no row of any table.
C13_CheckConstraints ==
    /\ []StoredValuesChecked
    /\ [][(/\ lastStmt' # lastStmt
           /\ lastStmt'.op \in {"insert", "update"}
           /\ \/ lastStmt'.new_role \notin Roles \cup {NoText}
              \/ lastStmt'.status \notin StatusesOf(lastStmt'.table) \cup {NoText}) =>
               (~lastStmt'.ok /\ db' = db)]_vars

\* An UPDATE of an existing payment carrying a status outside the check
\* constraint has been refused, after the invoice status trigger had run for
\* that payment.
C13_Witness ==
    /\ lastStmt.table = "payments"
    /\ lastStmt.op = "update"
    /\ lastStmt.status = "Void"
    /\ ~lastStmt.ok
    /\ lastStmt.role \in StaffRoles
    /\ lastStmt.id \in DOMAIN db.payments
    /\ db.invoices[db.payments[lastStmt.id].invoice_id].status = "Paid"

(***************************************************************************)
(* Claims about the foreign keys (checked under SpecFK).                   *)
(***************************************************************************)
\* Every foreign key of table d references a row that exists.
ForeignKeysHold(d) ==
    /\ \A t \in {"invoices", "payments", "components", "progress_steps",
                 "calendar_events", "chats"} :
          \A x \in DOMAIN d[t] : d[t][x].client_id \in DOMAIN d.clients
    /\ \A q \in DOMAIN d.payments : d.payments[q].invoice_id \in DOMAIN d.invoices
    /\ \A c \in DOMAIN d.components :
          d.components[c].invoice_id \in DOMAIN d.invoices \cup {NULL}
    /\ \A m \in DOMAIN d.chat_messages : d.chat_messages[m].chat_id \in DOMAIN d.chats
    /\ \A u \in DOMAIN d.user_profiles :
          d.user_profiles[u].client_id \in DOMAIN d.clients \cup {NULL}

\* C14: in every backend state every foreign key references an existing row;
\* a step that deletes a client leaves no row of that client behind and keeps
\* the profiles that referenced it, with client_id NULL; a step that deletes
\* an invoice leaves none of its payments and keeps its components (those of
\* a client that still exists), with invoice_id NULL.
C14_ForeignKeys ==
    /\ []ForeignKeysHold(db)
    /\ [][/\ \A c \in DOMAIN db.clients \ DOMAIN db'.clients :
               /\ \A t \in {"invoices", "payments", "components", "progress_steps",
                            "calendar_events", "chats"} :
                      \A x \in DOMAIN db'[t] : db'[t][x].client_id # c
               /\ \A m \in DOMAIN db'.chat_messages :
                      db'.chat_messages[m].chat_id \in DOMAIN db.chats
                          => db.chats[db'.chat_messages[m].chat_id].client_id # c
               /\ \A u \in DOMAIN db.user_profiles :
                      db.user_profiles[u].client_id = c =>
                          /\ u \in DOMAIN db'.user_profiles
                          /\ db'.user_profiles[u].client_id = NULL
          /\ \A i \in DOMAIN db.invoices \ DOMAIN db'.invoices :
               /\ \A q \in DOMAIN db'.payments : db'.payments[q].invoice_id # i
               /\ \A k \in DOMAIN db.components :
                      (/\ db.components[k].invoice_id = i
                       /\ db.components[k].client_id \in DOMAIN db'.clients) =>
                          /\ k \in DOMAIN db'.components
                          /\ db'.components[k].invoice_id = NULL]_vars

\* A client has been deleted that had rows referencing it: a profile that was
\* bound to a client has client_id NULL again, and the ids handed out to the
\* client and its rows are in no table.
C14_Witness ==
    /\ lastStmt.table = "clients"
    /\ lastStmt.op = "delete"
    /\ lastStmt.client_id \notin DOMAIN db.clients
    /\ db.next_id > lastStmt.client_id + 1
    /\ \A t \in {"invoices", "payments", "components", "progress_steps",
                 "calendar_events", "chats", "chat_messages"} : DOMAIN db[t] = {}
    /\ DOMAIN db.clients = {}

(***************************************************************************)
(* Claims about sign-up (checked under SpecAuth).                          *)
(***************************************************************************)
\* C15: a step in which signUp(email, password, {name, role, clientId,
\* permissions}) registers an account leaves one user_profiles row whose id
\* is the id of the account, with the role and with client_id = clientId of
\* the call.
C15_SignUpProfile ==
    [][\A email \in DOMAIN auth'.accounts \ DOMAIN auth.accounts :
          LET account == auth'.accounts[email]
          IN /\ account.id \in DOMAIN db'.user_profiles \ DOMAIN db.user_profiles
             /\ db'.user_profiles[account.id].role = account.data.role
             /\ db'.user_profiles[account.id].client_id = account.data.clientId]_vars

(***************************************************************************)
(* Claims about overlapping fetches (checked under SpecStore).             *)
(***************************************************************************)
\* The collection a fetch handler sets.
FetchCollection(op) ==
    CASE op = "fetchClients" -> "clients"
      [] op = "fetchInvoices" -> "invoices"
      [] op = "fetchPayments" -> "payments"
      [] op = "fetchProgressSteps" -> "progressSteps"
      [] op = "fetchTags" -> "tags"

\* C16: whatever else is in flight or has arrived before, the step in which
\* the response of a fetch arrives leaves the local collection equal to the
\* rows of that response: the response that arrived last is the collection,
\* also when an answer computed later has arrived before it.
C16_LastResponseWins ==
    [][\A r \in inflight \ inflight' :
          (r.op \in FetchOps /\ r.phase = "ok") =>
              store'[FetchCollection(r.op)] = convertRows(r.rows)]_vars

\* Two fetchClients overlapped: the local clients are the rows of a response
\* that has arrived, in the order of its SELECT, with a client that was added
\* meanwhile; the response of an earlier SELECT, without that client, is
\* still to arrive.
C16_Witness ==
    /\ ~store.loading.clients
    /\ store.clients = convertRows(select_ordered(db, SessionUid, "clients"))
    /\ \E r \in Answered("fetchClients") :
          /\ r.phase = "ok"
          /\ r.rows # <<>>
          /\ Len(r.rows) < Len(store.clients)
          /\ Ids(r.rows) \subseteq Ids(store.clients)

(***************************************************************************)
(* The store used by one handler at a time on a store that mirrors the     *)
(* backend: a write handler is called when no request is in flight and the *)
(* local clients, invoices, payments and components are the backend's.     *)
(***************************************************************************)
\* deleteInvoice: DELETE; then the invoice with that id and the components
\* with that invoiceId are filtered out.
deleteInvoice ==
    \/ \E id \in Ids(store.invoices) :
         /\ Send("deleteInvoice", id, NoArgs)
         /\ store' = store
    \/ \E r \in Answered("deleteInvoice") :
         IF r.phase = "ok"
         THEN Settle(r, [store EXCEPT !.invoices = FilterOut(@, "id", r.id),
                                      !.components = FilterOut(@, "invoiceId", r.id)],
                     FALSE)
         ELSE CatchLog(r)

\* The table a collection is fetched from.
TableOf(coll) ==
    CASE coll = "clients" -> "clients"
      [] coll = "invoices" -> "invoices"
      [] coll = "payments" -> "payments"
      [] coll = "components" -> "components"

\* The local collection holds the rows of its table as a fetch converts them,
\* each once.
Mirrors(s, d, coll) ==
    /\ Range(s[coll]) = {convertKeysToCamelCase(RowOf(d, TableOf(coll), id)) :
                            id \in DOMAIN d[TableOf(coll)]}
    /\ Len(s[coll]) = Cardinality(DOMAIN d[TableOf(coll)])

Synced == \A coll \in {"clients", "invoices", "payments", "components"} :
              Mirrors(store, db, coll)

\* The backends the page is loaded over: the seeded client and invoice alone,
\* with a component of the invoice, or with a payment on the invoice.
MirrorDbs ==
    {SeedDb,
     insert_scoped(SeedDb, 1, "components", SeedClient,
                   [client_id |-> SeedClient, invoice_id |-> SeedInvoice]).db,
     insert_payments(SeedDb, 1, SeedClient, SeedInvoice, 1, "Paid").db}

\* The page has loaded and its fetches have arrived.
InitMirror ==
    /\ db \in MirrorDbs
    /\ lastStmt = NoStmt
    /\ store = [EmptyStore EXCEPT
                  !.clients = convertRows(select_ordered(db, 1, "clients")),
                  !.invoices = convertRows(select_ordered(db, 1, "invoices")),
                  !.payments = convertRows(select_ordered(db, 1, "payments")),
                  !.components = convertRows(select_ordered(db, 1, "components"))]
    /\ inflight = {}
    /\ done = NoDone
    /\ auth = [InitAuth("SupabaseContext.tsx") EXCEPT
                 !.initialized = TRUE,
                 !.loading = FALSE,
                 !.session = "owner@example.com",
                 !.user = fetchUserProfile(SeedDb, 1, "owner@example.com", FALSE)]

\* Handler A runs alone: it is called when nothing is in flight (and, a write
\* handler, on a store that mirrors the backend), and ends with nothing in
\* flight.
Alone(A, pre) == A /\ ((inflight = {} /\ pre) \/ inflight' = {})

NextMirror ==
    \/ Alone(fetchClients, TRUE)
    \/ Alone(fetchInvoices, TRUE)
    \/ Alone(fetchPayments, TRUE)
    \/ Alone(addClient, Synced)
    \/ Alone(deleteClient, Synced)
    \/ Alone(deleteInvoice, Synced)
    \/ Alone(addPayment, Synced)
    \/ Alone(updatePayment, Synced)
    \/ Alone(deletePayment, Synced)
    \/ PostgREST

SpecMirror == InitMirror /\ [][NextMirror]_vars

(***************************************************************************)
(* Progress steps: addInvoice, addComponent, addComponents and             *)
(* copyComponentsToProgressSteps, each run to its end with every request   *)
(* answered, on rows that carry the package name, the component name and   *)
(* the step title.                                                         *)
(***************************************************************************)
\* `${packageName} - Package Setup`
PackageSetup(packageName) ==
    CASE packageName = "Basic" -> "Basic - Package Setup"
      [] packageName = "Premium" -> "Premium - Package Setup"

\* The names the model's callers give components.
ComponentNames == {"Logo", "Basic - Package Setup"}

\* INSERT INTO progress_steps (client_id, title, ...).
insert_step(d, uid, client_id, title) ==
    insert_scoped(d, uid, "progress_steps", client_id,
                  [client_id |-> client_id, title |-> title]).db

\* INSERT INTO components (client_id, name, ...) and the row it returns.
insert_component(d, uid, client_id, name) ==
    insert_scoped(d, uid, "components", client_id,
                  [client_id |-> client_id, invoice_id |-> NULL, name |-> name])

\* SELECT id FROM progress_steps WHERE client_id AND title (.single()): data
\* is the row when exactly one row is found, null otherwise.
existingStep(d, uid, client_id, title) ==
    LET found == {x \in DOMAIN d.progress_steps :
                     /\ CanSelect(d, uid, "progress_steps", x)
                     /\ d.progress_steps[x].client_id = client_id
                     /\ d.progress_steps[x].title = title}
    IN IF Cardinality(found) = 1 THEN CHOOSE x \in found : TRUE ELSE NULL

RECURSIVE CopyTitles(_, _, _, _)
\* The two loops of copyComponentsToProgressSteps over the titles, in order:
\* if (!existingStep) INSERT.
CopyTitles(d, uid, client_id, titles) ==
    IF titles = <<>> THEN d
    ELSE LET d1 == IF existingStep(d, uid, client_id, Head(titles)) = NULL
                   THEN insert_step(d, uid, client_id, Head(titles))
                   ELSE d
         IN CopyTitles(d1, uid, client_id, Tail(titles))

\* The titles copyComponentsToProgressSteps(clientId) goes through: those of
\* the local invoices of the client, then the names of its local components.
TitlesOf(s, client_id) ==
    LET invs == SelectSeq(s.invoices, LAMBDA inv : inv.clientId = client_id)
        comps == SelectSeq(s.components, LAMBDA comp : comp.clientId = client_id)
    IN [n \in DOMAIN invs |-> PackageSetup(invs[n].packageName)]
           \o [n \in DOMAIN comps |-> comps[n].name]

StepsLeft == Cardinality(DOMAIN db.progress_steps) < MaxSteps
Completed(op) == [op |-> op, id |-> NULL, failed |-> FALSE, rejected |-> FALSE]
\* A handler's last statement get().fetchProgressSteps(), arrived.
StepsFetched(d) == convertRows(select_ordered(d, SessionUid, "progress_steps"))

\* addInvoice, every request answered: the invoice, its tag unless there is
\* one, its progress step; the local invoices, tags and progress steps.
addInvoice_Answered ==
    \E n \in DOMAIN TagNames :
        LET res == insert_invoices(db, SessionUid, SeedClient, MaxAmount)
            id == res.row.id
            d1 == [res.db EXCEPT !.invoices[id] = [package_name |-> TagNames[n]] @@ @]
            d2 == IF select_tag_by_name(d1, SessionUid, TagNames[n]).ok THEN d1
                  ELSE insert_tags(d1, SessionUid, TagNames[n]).db
            d3 == insert_step(d2, SessionUid, SeedClient, PackageSetup(TagNames[n]))
        IN /\ StepsLeft
           /\ res.ok
           /\ db' = d3
           /\ store' = [store EXCEPT
                          !.invoices = Append(@, convertKeysToCamelCase(RowOf(d1, "invoices", id))),
                          !.tags = convertRows(select_tags(d3, SessionUid)),
                          !.progressSteps = StepsFetched(d3)]
           /\ done' = Completed("addInvoice")
           /\ UNCHANGED <<lastStmt, inflight, auth>>

\* addComponent, every request answered: the component, its progress step;
\* the local components and progress steps.
addComponent_Answered ==
    \E name \in ComponentNames :
        LET res == insert_component(db, SessionUid, SeedClient, name)
            d1 == insert_step(res.db, SessionUid, SeedClient, name)
        IN /\ StepsLeft
           /\ res.ok
           /\ db' = d1
           /\ store' = [store EXCEPT
                          !.components = Append(@, convertKeysToCamelCase(res.row)),
                          !.progressSteps = StepsFetched(d1)]
           /\ done' = Completed("addComponent")
           /\ UNCHANGED <<lastStmt, inflight, auth>>

\* addComponents on two components, every request answered: one INSERT of the
\* components, one INSERT of their progress steps.
addComponents ==
    \E name1, name2 \in ComponentNames :
        LET res1 == insert_component(db, SessionUid, SeedClient, name1)
            res2 == insert_component(res1.db, SessionUid, SeedClient, name2)
            d1 == insert_step(insert_step(res2.db, SessionUid, SeedClient, name1),
                              SessionUid, SeedClient, name2)
        IN /\ Cardinality(DOMAIN db.progress_steps) + 1 < MaxSteps
           /\ res1.ok /\ res2.ok
           /\ db' = d1
           /\ store' = [store EXCEPT
                          !.components = @ \o <<convertKeysToCamelCase(res1.row),
                                                convertKeysToCamelCase(res2.row)>>,
                          !.progressSteps = StepsFetched(d1)]
           /\ done' = Completed("addComponents")
           /\ UNCHANGED <<lastStmt, inflight, auth>>

\* copyComponentsToProgressSteps(clientId), every request answered.
copyComponentsToProgressSteps ==
    LET d1 == CopyTitles(db, SessionUid, SeedClient, TitlesOf(store, SeedClient))
    IN /\ StepsLeft
       /\ db' = d1
       /\ store' = [store EXCEPT !.progressSteps = StepsFetched(d1)]
       /\ done' = Completed("copyComponentsToProgressSteps")
       /\ UNCHANGED <<lastStmt, inflight, auth>>

\* The page has loaded for the Super Admin over a backend with one client.
InitCopy ==
    /\ db = insert_clients(EmptyDb, 1, NoText, ZeroTotals).db
    /\ lastStmt = NoStmt
    /\ store = [EmptyStore EXCEPT !.clients = convertRows(select_ordered(db, 1, "clients"))]
    /\ inflight = {}
    /\ done = NoDone
    /\ auth = [InitAuth("SupabaseContext.tsx") EXCEPT
                 !.initialized = TRUE,
                 !.loading = FALSE,
                 !.session = "owner@example.com",
                 !.user = fetchUserProfile(EmptyDb, 1, "owner@example.com", FALSE)]

NextCopy ==
    \/ addInvoice_Answered
    \/ addComponent_Answered
    \/ addComponents
    \/ copyComponentsToProgressSteps

SpecCopy == InitCopy /\ [][NextCopy]_vars

(***************************************************************************)
(* The backend under callers of every role who attempt every write: each   *)
(* statement is recorded with its caller and the caller's role.            *)
(***************************************************************************)
\* updateUser, deleteUser and addUser by any signed-in caller on any profile.
ProfileWrites ==
    \E uid \in Callers :
        \/ \E id \in DOMAIN db.user_profiles, role \in RoleInputs \cup {NoText},
              c \in DOMAIN db.clients \cup {NULL} :
              /\ role = NoText \/ c = db.user_profiles[id].client_id
              /\ LET r == update_user_profiles(db, id, role, NoText, c)
                 IN Attempt(r, Written("user_profiles", "update", uid, id, r, role, NoText))
        \/ \E id \in DOMAIN db.user_profiles :
              LET r == delete_user_profiles(db, id)
              IN Attempt(r, Written("user_profiles", "delete", uid, id, r, NoText, NoText))
        \/ \E role \in RoleInputs :
              LET r == insert_user_profiles(db, uid, role, NoText, NULL)
              IN Attempt(r, Written("user_profiles", "insert", uid, NULL, r, role, NoText))

\* The tables a client-role policy lets its callers read only.
StaffWrittenTables ==
    {"clients", "invoices", "payments", "components", "progress_steps",
     "calendar_events", "tags"}

\* The INSERT, UPDATE and DELETE of the store's handlers on those tables, by
\* any signed-in caller.
TableWrites ==
    \E uid \in Callers :
        \/ /\ HasId
           /\ LET r == insert_clients(db, uid, NoText, ZeroTotals)
              IN Attempt(r, Written("clients", "insert", uid, db.next_id, r, NoText, NoText))
        \/ \E id \in DOMAIN db.clients :
              LET r == update_clients(db, uid, id, "Complete")
              IN Attempt(r, Written("clients", "update", uid, id, r, NoText, "Complete"))
        \/ \E id \in DOMAIN db.clients :
              LET r == delete_clients(db, uid, id)
              IN Attempt(r, Written("clients", "delete", uid, id, r, NoText, NoText))
        \/ \E c \in DOMAIN db.clients :
              /\ HasId
              /\ LET r == insert_invoices(db, uid, c, MaxAmount)
                 IN Attempt(r, Written("invoices", "insert", uid, db.next_id, r, NoText, NoText))
        \/ \E id \in DOMAIN db.invoices :
              LET r == update_invoices(db, uid, id, 1)
              IN Attempt(r, Written("invoices", "update", uid, id, r, NoText, NoText))
        \/ \E id \in DOMAIN db.invoices :
              LET r == delete_invoices(db, uid, id)
              IN Attempt(r, Written("invoices", "delete", uid, id, r, NoText, NoText))
        \/ \E i \in DOMAIN db.invoices :
              /\ HasId
              /\ LET r == insert_payments(db, uid, db.invoices[i].client_id, i, 1, "Paid")
                 IN Attempt(r, Written("payments", "insert", uid, db.next_id, r, NoText, "Paid"))
        \/ \E id \in DOMAIN db.payments :
              LET r == update_payments(db, uid, id, db.payments[id].amount, "Pending")
              IN Attempt(r, Written("payments", "update", uid, id, r, NoText, "Pending"))
        \/ \E id \in DOMAIN db.payments :
              LET r == delete_payments(db, uid, id)
              IN Attempt(r, Written("payments", "delete", uid, id, r, NoText, NoText))
        \/ \E t \in {"components", "progress_steps", "calendar_events"},
              c \in DOMAIN db.clients :
              /\ HasId
              /\ LET row == IF t = "components"
                            THEN [client_id |-> c, invoice_id |-> NULL]
                            ELSE [client_id |-> c]
                     r == insert_scoped(db, uid, t, c, row)
                 IN Attempt(r, Written(t, "insert", uid, db.next_id, r, NoText, NoText))
        \/ \E t \in {"components", "progress_steps", "calendar_events"} :
              \E id \in DOMAIN db[t] :
                 LET r == delete_scoped(db, uid, t, id)
                 IN Attempt(r, Written(t, "delete", uid, id, r, NoText, NoText))
        \/ /\ HasId
           /\ LET r == insert_tags(db, uid, TagNames[1])
              IN Attempt(r, Written("tags", "insert", uid, db.next_id, r, NoText, NoText))
        \/ \E id \in DOMAIN db.tags :
              LET r == update_tags(db, uid, id, TagNames[2])
              IN Attempt(r, Written("tags", "update", uid, id, r, NoText, NoText))
        \/ \E id \in DOMAIN db.tags :
              LET r == delete_tags(db, uid, id)
              IN Attempt(r, Written("tags", "delete", uid, id, r, NoText, NoText))

NextProfiles ==
    \/ BackendSignUp
    \/ BackendAddClient({ZeroTotals})
    \/ ProfileWrites

SpecProfiles == Init /\ [][NextProfiles]_vars

\* (a profile is bound to a client by an updateUser that sets client_id only)
NextPolicy ==
    \/ BackendSignUp
    \/ \E id \in DOMAIN db.user_profiles, c \in DOMAIN db.clients :
          Commit(update_user_profiles(db, id, NoText, NoText, c),
                 Stmt("user_profiles", "update", id, c, NULL))
    \/ TableWrites

SpecPolicy == Init /\ [][NextPolicy]_vars

(***************************************************************************)
(* Claims about who may write what (checked under SpecProfiles and         *)
(* SpecPolicy).                                                            *)
(***************************************************************************)
\* C17: a statement on user_profiles by a signed-in caller who is not a Super
\* Admin adds, changes or removes no profile of another user and leaves the
\* caller's own role and client_id as they were.
C17_OnlySuperAdminManagesProfiles ==
    [][(/\ lastStmt'.table = "user_profiles"
        /\ lastStmt'.caller # NULL
        /\ lastStmt'.role # "Super Admin") =>
           /\ DOMAIN db'.user_profiles \ {lastStmt'.caller}
                 = DOMAIN db.user_profiles \ {lastStmt'.caller}
           /\ \A u \in DOMAIN db'.user_profiles \cap DOMAIN db.user_profiles :
                 IF u = lastStmt'.caller
                 THEN /\ db'.user_profiles[u].role = db.user_profiles[u].role
                      /\ db'.user_profiles[u].client_id = db.user_profiles[u].client_id
                 ELSE db'.user_profiles[u] = db.user_profiles[u]]_vars

C19_DeleteInvoiceMirrors ==
    [][\A r \in inflight \ inflight' :
          (r.op = "deleteInvoice" /\ r.phase = "ok") =>
              \A coll \in {"invoices", "payments", "components"} :
                  Mirrors(store', db', coll)]_vars

\* C20: the step in which addPayment, updatePayment or deletePayment, called
\* on a store that mirrored the backend, completes after a successful
\* statement leaves every local invoice with the backend's paid, due and
\* status and every local client with the backend's total_collection and
\* balance.
C20_PaymentRollupsAreLocal ==
    [][\A r \in inflight \ inflight' :
          (r.op \in {"addPayment", "updatePayment", "deletePayment"} /\ r.phase = "ok") =>
              /\ \A i \in Range(store'.invoices) :
                    /\ i.id \in DOMAIN db'.invoices
                    /\ i.paid = db'.invoices[i.id].paid
                    /\ i.due = db'.invoices[i.id].due
                    /\ i.status = db'.invoices[i.id].status
              /\ \A c \in Range(store'.clients) :
                    /\ c.id \in DOMAIN db'.clients
                    /\ c.totalCollection = db'.clients[c.id].total_collection
                    /\ c.balance = db'.clients[c.id].balance]_vars

(***************************************************************************)
(* Claims about interleaved fetches and adds (checked under SpecStore).    *)
(***************************************************************************)
\* C21: no local collection holds two rows with the same id, whatever the
\* order in which the answers of fetches and adds arrive.
C21_NoDuplicateIds ==
    \A coll \in Collections :
        \A m, n \in DOMAIN store[coll] :
            store[coll][m].id = store[coll][n].id => m = n

(***************************************************************************)
(* Claims about deleteClient's local update (checked under SpecMirror).    *)
(***************************************************************************)
\* C22: the step in which deleteClient(id) completes after a successful
\* DELETE removes, at once, the local client with that id and the local
\* invoices, payments, components, progress steps, calendar events and chats
\* whose clientId is id, keeps every other row of those collections in its
\* place, and leaves tags and users as they were.
C22_DeleteClientCascadesLocally ==
    [][\A r \in inflight \ inflight' :
          (r.op = "deleteClient" /\ r.phase = "ok") =>
              /\ store'.clients = SelectSeq(store.clients, LAMBDA row : row.id # r.id)
              /\ \A coll \in {"invoices", "payments", "components", "progressSteps",
                              "calendarEvents", "chats"} :
                    store'[coll] = SelectSeq(store[coll], LAMBDA row : row.clientId # r.id)
              /\ store'.tags = store.tags
              /\ store'.users = store.users]_vars

\* deleteClient has completed for the client whose invoice the store held:
\* the invoice is gone from the store, and the client that was added
\* meanwhile is still there.
C22_Witness ==
    /\ done.op = "deleteClient"
    /\ ~done.failed
    /\ inflight = {}
    /\ done.id = SeedClient
    /\ store.invoices = <<>>
    /\ store.clients # <<>>
    /\ SeedClient \notin Ids(store.clients)

(***************************************************************************)
(* Claims about addInvoice's tag (checked under SpecAdd).                  *)
(***************************************************************************)
\* C23: when addInvoice, its invoice INSERT having succeeded, completes, the
\* backend holds exactly one tag with the name of the invoice's package.
C23_OneTagPerPackage ==
    [][\A r \in inflight \ inflight' :
          (r.op = "addInvoice.step" /\ r.phase # "sent") =>
              Cardinality({t \in DOMAIN db'.tags : db'.tags[t].name = r.args.name}) = 1]_vars

(***************************************************************************)
(* Claims about copyComponentsToProgressSteps (checked under SpecCopy).    *)
(***************************************************************************)
\* C24: every progress step copyComponentsToProgressSteps(clientId) inserts
\* has a title that no progress step of the client had in the backend, and
\* when it has completed, calling it again would insert nothing.
C24_CopyInsertsMissingStepsOnly ==
    /\ [][done'.op = "copyComponentsToProgressSteps" =>
             \A x \in DOMAIN db'.progress_steps \ DOMAIN db.progress_steps :
                 \A y \in DOMAIN db.progress_steps :
                     db.progress_steps[y].client_id = db'.progress_steps[x].client_id
                         => db.progress_steps[y].title # db'.progress_steps[x].title]_vars
    /\ [](done.op = "copyComponentsToProgressSteps" =>
             CopyTitles(db, SessionUid, SeedClient, TitlesOf(store, SeedClient)) = db)

(***************************************************************************)
(* Claims about the loading flags (checked under SpecStore).               *)
(***************************************************************************)
\* C25: loading.<entity> is true exactly in the states in which a fetch of
\* that entity is in flight.
C25_LoadingWhileInFlight ==
    \A op \in FetchOps :
        store.loading[FetchCollection(op)] = (\E r \in inflight : r.op = op)


(***************************************************************************)
(* The provider with its awaits: initializeAuth and the SIGNED_IN branch   *)
(* of the onAuthStateChange listener stop at `await fetchUserProfile` and  *)
(* resume on its answer, so other handlers run in between; and             *)
(* updateUserProfile.                                                      *)
(***************************************************************************)
\* The events the listener is called with besides those of signIn and signOut.
OtherEvents == {"TOKEN_REFRESHED", "USER_UPDATED", "INITIAL_SESSION"}
\* What updateUserProfile's callers pass: updates.role (NoText: undefined;
\* "Owner": a role the check constraint refuses) and updates.clientId (NULL:
\* undefined).
UpdateRoles == {NoText, "Team", "Owner"}
UpdateClients == {NULL, SeedClient}

isAuthenticated == auth.user # NoUser

\* A profile fetch a handler is waiting for; overtaken: a SIGNED_OUT event has
\* been handled since it was sent.
ProfileFetch(by, email) == [by |-> by, email |-> email, overtaken |-> FALSE]

\* The last call of the listener that set the user to null, or of
\* updateUserProfile, that ran to its end: the event it handled, the context
\* user it found, the error it returned, whether it called the backend, and
\* its updates.
Finished(op, event, error, called, updates) ==
    [op |-> op, id |-> NULL, failed |-> error # NoText, rejected |-> FALSE,
     event |-> event, before |-> auth.user, error |-> error,
     called |-> called, updates |-> updates]
NoUpdates == [role |-> NoText, clientId |-> NULL]

\* The listener's branch on (event, session), up to its first await: the user
\* stays for `SIGNED_IN` with a session user, and is null after every other event.
onAuthStateChange_user_SignedOutOnly(e, u) ==
    IF e.event = "SIGNED_OUT" THEN NoUser ELSE u
onAuthStateChange_user(e, u) ==
    IF e.event = "SIGNED_IN" /\ e.email # NoText THEN u ELSE NoUser

\* initializeAuth up to `await fetchUserProfile(session.user.id)`, or to its
\* end when getSession finds no session.
initializeAuth_getSession ==
    /\ ~auth.initialized
    /\ IF auth.session # NoText
       THEN /\ auth' = [auth EXCEPT
                          !.initialized = TRUE,
                          !.fetches = @ \cup {ProfileFetch("initializeAuth", auth.session)}]
       ELSE auth' = [auth EXCEPT !.initialized = TRUE, !.loading = FALSE]
    /\ AuthOnly

\* The auth service calls the listener with another event: a token refresh,
\* a user update (of an open session) or the initial session, with the
\* session of the moment, or SIGNED_IN with no session.
AuthStateChanged ==
    /\ Len(auth.events) < MaxInFlight
    /\ \/ \E event \in OtherEvents :
            /\ event = "INITIAL_SESSION" \/ auth.session # NoText
            /\ auth' = [auth EXCEPT
                          !.events = Append(@, [event |-> event, email |-> auth.session])]
       \/ auth' = [auth EXCEPT
                     !.events = Append(@, [event |-> "SIGNED_IN", email |-> NoText])]
    /\ AuthOnly

\* The listener on the oldest undelivered event, up to `await
\* fetchUserProfile` (SIGNED_IN with a session user) or to its end (setUser(null),
\* setLoading(false)).
onAuthStateChange_event ==
    /\ auth.events # <<>>
    /\ LET e == Head(auth.events)
       IN IF e.event = "SIGNED_IN" /\ e.email # NoText
          THEN /\ ProfileFetch("onAuthStateChange", e.email) \notin auth.fetches
               /\ auth' = [auth EXCEPT
                             !.events = Tail(@),
                             !.user = onAuthStateChange_user(e, @),
                             !.fetches = @ \cup {ProfileFetch("onAuthStateChange", e.email)}]
               /\ UNCHANGED done
          ELSE /\ auth' = [auth EXCEPT
                             !.events = Tail(@),
                             !.user = onAuthStateChange_user(e, @),
                             !.fetches = IF e.event = "SIGNED_OUT"
                                         THEN {[f EXCEPT !.overtaken = TRUE] : f \in @}
                                         ELSE @,
                             !.loading = FALSE]
               /\ done' = Finished("onAuthStateChange", e.event, NoText, FALSE, NoUpdates)
    /\ UNCHANGED <<db, lastStmt, store, inflight>>

\* The profile query of a waiting handler is answered and the handler runs to
\* its end: `if (profile) setUser(...)`, then setLoading(false).  (part_000
\* awaits the update_last_login rpc before setUser; its result is not read.)
fetchUserProfile_answered ==
    \E f \in auth.fetches, fails \in BOOLEAN :
        LET uid == IF f.email \in DOMAIN auth.accounts
                   THEN auth.accounts[f.email].id ELSE NULL
            profile == fetchUserProfile(db, uid, f.email, fails)
        IN /\ auth' = [auth EXCEPT
                         !.fetches = @ \ {f},
                         !.user = IF profile # NoUser THEN profile ELSE @,
                         !.loading = FALSE]
           /\ AuthOnly

\* The profile whose id column equals user.id: NULL for an id that is not a
\* profile id (a demo user's id is not a uuid).
ProfileId(d, id) ==
    IF \E n \in DOMAIN d.user_profiles : ToString(n) = id
    THEN CHOOSE n \in DOMAIN d.user_profiles : ToString(n) = id
    ELSE NULL

\* updateUserProfile: UPDATE user_profiles SET name, role, client_id,
\* permissions, updated_at WHERE id = user.id.  An undefined key is left out
\* of the SET list; the policy "Allow authenticated users to update user
\* profiles" shows the row to signed-in callers only, and an UPDATE that finds
\* no row is no error.
update_own_profile(d, uid, id, role, client_id) ==
    IF \/ ProfileId(d, id) = NULL
       \/ (role # NoText /\ role \notin Roles)
       \/ (client_id # NULL /\ client_id \notin DOMAIN d.clients)
    THEN Rejected(d)
    ELSE IF uid = NULL THEN Accepted(d, NULL)
    ELSE LET n == ProfileId(d, id)
             d1 == [d EXCEPT !.user_profiles[n] =
                       [@ EXCEPT !.role = IF role = NoText THEN @ ELSE role,
                                 !.client_id = IF client_id = NULL THEN @ ELSE client_id]]
         IN Accepted(d1, RowOf(d1, "user_profiles", n))

\* { ...prev, ...updates }
MergeUpdates_RoleOnly(prev, updates) ==
    [prev EXCEPT !.role = IF updates.role = NoText THEN @ ELSE updates.role]
MergeUpdates(prev, updates) ==
    [prev EXCEPT !.role = IF updates.role = NoText THEN @ ELSE updates.role,
                 !.clientId = IF updates.clientId = NULL THEN @ ELSE updates.clientId]

\* updateUserProfile(updates): no user, an error of the UPDATE (or no answer),
\* or setUser(prev => prev ? { ...prev, ...updates } : null).
updateUserProfile ==
    \E role \in UpdateRoles, clientId \in UpdateClients, fails \in BOOLEAN :
        LET updates == [role |-> role, clientId |-> clientId]
            r == update_own_profile(db, SessionUid, auth.user.id, role, clientId)
        IN IF auth.user = NoUser
           THEN /\ ~fails
                /\ done' = Finished("updateUserProfile", NoText,
                                    "No user logged in", FALSE, updates)
                /\ UNCHANGED <<db, lastStmt, store, inflight, auth>>
           ELSE IF fails \/ ~r.ok
           THEN /\ done' = Finished("updateUserProfile", NoText,
                                    "Update failed", TRUE, updates)
                /\ lastStmt' = [Stmt("user_profiles", "update", ProfileId(db, auth.user.id),
                                     clientId, NULL) EXCEPT !.ok = FALSE]
                /\ UNCHANGED <<db, store, inflight, auth>>
           ELSE /\ done' = Finished("updateUserProfile", NoText, NoText, TRUE, updates)
                /\ db' = r.db
                /\ lastStmt' = Stmt("user_profiles", "update", ProfileId(db, auth.user.id),
                                    clientId, NULL)
                /\ auth' = [auth EXCEPT !.user = MergeUpdates(@, updates)]
                /\ UNCHANGED <<store, inflight>>

\* The provider is mounted with or without a session kept from an earlier visit.
InitSession ==
    /\ db = SeedDb
    /\ lastStmt = NoStmt
    /\ store = EmptyStore
    /\ inflight = {}
    /\ done = NoDone
    /\ \E build \in Builds, session \in {NoText, "owner@example.com"} :
          auth = [InitAuth(build) EXCEPT !.session = session]

\* One call of signIn or signOut, and one event of the auth service, at a time.
OneAtATime(A) == A /\ Cardinality(auth'.calls) <= 1 /\ Len(auth'.events) <= 1

NextSession ==
    \/ initializeAuth_getSession
    \/ OneAtATime(signIn)
    \/ OneAtATime(signIn_part_000)
    \/ OneAtATime(signInWithPassword)
    \/ OneAtATime(AuthStateChanged)
    \/ onAuthStateChange_event
    \/ fetchUserProfile_answered
    \/ OneAtATime(signOut)

SpecSession == InitSession /\ [][NextSession]_vars

\* The provider's sign-ins and updateUserProfile.
NextUpdate ==
    \/ OneAtATime(signIn)
    \/ OneAtATime(signIn_part_000)
    \/ OneAtATime(signInWithPassword)
    \/ onAuthStateChange_event
    \/ fetchUserProfile_answered
    \/ updateUserProfile

SpecUpdate == InitAuthSpec /\ [][NextUpdate]_vars

(***************************************************************************)
(* Claims about the authentication context (checked under SpecSession, and *)
(* C29 under SpecUpdate).                                                  *)
(***************************************************************************)
\* C26: when the handler of a SIGNED_IN event has finished, the context user
\* is null or has the id of that event's session user.
C26_SignedInUserIsSessionUser ==
    [][\A f \in auth.fetches \ auth'.fetches :
          f.by = "onAuthStateChange"
              => \/ auth'.user = NoUser
                 \/ auth'.user.id = ToString(auth.accounts[f.email].id)]_vars

\* C27: a profile fetch of initializeAuth or of a SIGNED_IN event that was in
\* flight when a SIGNED_OUT event was handled leaves the context user null
\* and isAuthenticated false when it is the last handler to complete after
\* the sign-out.
C27_SignedOutStaysSignedOut ==
    [][\A f \in auth.fetches \ auth'.fetches :
          (/\ f.overtaken
           /\ auth.user = NoUser
           /\ auth.session = NoText
           /\ auth'.fetches = {} /\ auth.events = <<>> /\ auth.calls = {})
              => (auth'.user = NoUser /\ ~isAuthenticated')]_vars

\* C28: the handler of every event that is not SIGNED_IN with a session user
\* sets the user to null and loading to false.
C28_OtherEventsClearUser ==
    [][(/\ auth.events # <<>>
        /\ auth'.events = Tail(auth.events)
        /\ ~(Head(auth.events).event = "SIGNED_IN" /\ Head(auth.events).email # NoText))
           => (auth'.user = NoUser /\ ~auth'.loading)]_vars
\* A demo user set by signIn has been cleared by a token refresh.
C28_Witness ==
    /\ done.op = "onAuthStateChange"
    /\ done.event = "TOKEN_REFRESHED"
    /\ done.before = mockUser("admin@sentra.com")
    /\ auth.user = NoUser
    /\ ~auth.loading

\* C29: updateUserProfile without a user returns 'No user logged in' and
\* calls no backend; on an error of the update it returns an error and
\* leaves the user as it was; on success, and only then, the updates are
\* merged into the user.
C29_UpdateUserProfile ==
    [][(done' # done /\ done'.op = "updateUserProfile") =>
          /\ auth.user = NoUser
                => /\ done'.error = "No user logged in"
                   /\ ~done'.called /\ db' = db /\ lastStmt' = lastStmt
                   /\ auth'.user = NoUser
          /\ (auth.user # NoUser /\ done'.error # NoText) => auth'.user = auth.user
          /\ (auth.user # NoUser /\ done'.error = NoText)
                => /\ done'.called
                   /\ auth'.user.id = auth.user.id
                   /\ auth'.user.email = auth.user.email
                   /\ auth'.user.role = IF done'.updates.role = NoText
                                        THEN auth.user.role ELSE done'.updates.role
                   /\ auth'.user.clientId = IF done'.updates.clientId = NULL
                                            THEN auth.user.clientId
                                            ELSE done'.updates.clientId]_vars
\* A signed-in user's update has succeeded and changed the role and the client
\* of the context user.
C29_Witness ==
    /\ done.op = "updateUserProfile"
    /\ done.error = NoText
    /\ done.before # NoUser
    /\ done.updates = [role |-> "Team", clientId |-> SeedClient]
    /\ auth.user = MergeUpdates(done.before, done.updates)
    /\ auth.user # done.before

=============================================================================
